---- MODULE Spec2Model ----
(***************************************************************************)
(* Verification model of the LoRaWAN experiment harness: the multi-gateway *)
(* deduplicated reception accounting of scenario 8                         *)
(* (scenario-08-multi-gateway.cc), the packet key of lora_utils.h, the     *)
(* per-pair breakdown cache of DetailedPropagationLossModel, the near/far  *)
(* cohorts and the capture-effect level of scenario 6                      *)
(* (scenario-06-collision-capture.cc), the attribution of interference     *)
(* losses and the exported channel utilisation of scenario 3               *)
(* (scenario-03-sf-impact.cc), the retransmission accounting of scenario 4 *)
(* (scenario-04-confirmed-messages.cc), the SimpleSender application of    *)
(* scenario 0, and the pure functions for rates, percentiles, time on air, *)
(* running means and exported drop counts.                                 *)
(*                                                                         *)
(* Each subsystem has its own variables and its own specification; a       *)
(* specification keeps the variables of the other subsystems at their      *)
(* initial values.  The scenarios share the variables of the simulated run *)
(* (clock, uplinks sent, sent and received counters).                      *)
(*                                                                         *)
(* Time is counted in ticks of 0.1 s of simulated time.  std::map          *)
(* counters are total functions whose absent entries read 0, which is what *)
(* operator[] returns for them; a std::map whose absent entries matter     *)
(* (g_isNearNode) is a function on the keys present.  dB values are        *)
(* integers; scenario 6 holds them in hundredths.  A double computed from  *)
(* counts is held in thousandths, with NaN and infinity apart; means and   *)
(* utilisations are exact fractions <<numerator, denominator>>.            *)
(***************************************************************************)
EXTENDS Integers, Sequences, FiniteSets, TLC

\* ------------------------------------------------------------------ bounds
\* number of end devices (nDevices)
NumDevices == 2
\* uplinks the end devices send, all together, in the modelled run
MaxUplinks == 3
\* gateway receptions delivered in the modelled run
MaxHearings == 4
\* samples in a list: latencies a percentile is taken of, RSSI samples of a mean
MaxSamples == 4
\* the largest nPkts a SimpleSender is configured with
MaxPkts == 5
\* packets a SimpleSender sends in the modelled run when nPkts = 0
MaxSends == 7
\* Simulator::Stop, in ticks (simulationTime * 60 s, shortened)
StopTick == 12

\* --------------------------------------------------------------- constants
\* one 16-bit limb: a uint32_t is <<hi, lo>>, a uint64_t is <<w3, w2, w1, w0>>
LimbBits == 16
LimbMod == 65536
\* appContainer.Start(Seconds(1.1))
AppStartTick == 11
\* a plausible slip: the mapping is scheduled after the applications have started
MappingTickLate == AppStartTick + 1
\* Simulator::Schedule(Seconds(1.0), buildMappingFunc, endDevices)
MappingTick == 10
\* LoraDeviceAddressGenerator(nwkId, nwkAddr)
NwkId == 54
NwkAddr == 1864
\* a LoraDeviceAddress is a 7-bit network id above a 25-bit network address
NwkAddrMod == 33554432
\* main accepts nGateways of 1, 2 or 4
MaxGateways == 4

VARIABLES
    \* --- scenario 8: simulator and network (the ns-3 side)
    now,                    \* Simulator::Now in ticks
    phase,                  \* "run" | "stopped" | "exported"
    mappingPending,         \* the mapping event scheduled for 1.0 s is still queued
    macFCnt,                \* end device index -> frame counter of its next uplink
    aired,                  \* uplinks transmitted so far: <<device index, fcnt>>
    heardFrames,            \* uplinks <<device index, fcnt>> some gateway has heard
    hearingsAtGw,           \* gateway idx -> hearings delivered at that gateway
    heardAt,                \* device -> gateway idx -> hearings of the device there
    firstFlagged,           \* <<device index, fcnt>> -> hearings the handler took as first
    rxCalls,                \* calls of OnGatewayReceiveWithContext so far
    \* --- scenario 8: the program's globals
    g_nGateways,
    g_gwNodeIdToIdx,
    g_deviceToNodeMap,
    g_seenKeys,
    g_totalSent,
    g_totalReceived,
    g_totalRaw,
    g_totalUnique,
    g_totalDuplicate,
    g_sentPacketsPerNode,
    g_receivedPacketsPerNode,
    g_rawHearingsPerNode,
    g_uniqueRecvPerNode,
    g_rawPerGwPerNode,
    g_uniquePerGwPerNode,
    g_totalRawPerGw,
    csvOwner,               \* PER_NODE_STATS: node id -> OwnerGatewayIdx written
    \* --- MakePacketKey on its own
    keyIn,                  \* the two (devaddr, fcnt) arguments
    keyOut,                 \* the two keys returned
    \* --- DetailedPropagationLossModel
    m_pathLossModel,
    m_shadowingModel,
    m_detailsCache,
    lastCalc,               \* <<tx id, rx id>> -> details of the latest DoCalcRxPower call
    overwrote,              \* a later call has replaced the details of some pair
    lastReturned,           \* what GetLastDetails returned since the latest DoCalcRxPower
    \* --- scenario 6: near/far cohorts (its other globals are the ones above)
    g_nodeDistances,        \* node id -> distance to the nearest gateway, in metres
    g_estRssiPerNode,       \* node id -> estimated RSSI, in hundredths of a dBm
    g_rssiThreshold,        \* in hundredths of a dBm
    g_isNearNode,           \* node id -> BOOLEAN, a std::map: absent until written or read
    g_nearCohortSent,
    g_nearCohortReceived,
    g_farCohortSent,
    g_farCohortReceived,
    edDistance,             \* end device index -> distance its position gives, in metres
    delivered,              \* uplinks <<device index, fcnt>> the gateway MAC has received
    countedAs,              \* node id -> the cohorts its packets have been counted in
    csvCapture,             \* CAPTURE_EFFECT_ANALYSIS as exported, <<>> before the export
    \* --- scenario 3: interference losses at the gateway PHYs
    g_lostInterf,
    g_interfPerGw,
    g_collisionsPerNode,
    g_interferencePerNode,
    g_currentSpreadingFactor,
    g_totalAirTimePerNode,  \* node id -> airtime, in quarters of a microsecond
    g_totalAirTime,
    lastLoss,               \* the latest RxInterfPerGw call: packet, sender, gateway
    \* --- pure functions on their own
    fnArgs,                 \* the arguments drawn
    fnResult,               \* what the function returned, <<>> before the call
    \* --- scenario 4: retransmission accounting
    g_retransmissionsPerNode,
    g_frameCountersPerNode, \* node id -> the set of frame counters received
    g_lastFrameCountPerNode,
    g_totalRetransmissions,
    g_confirmedPacketsSent,
    g_confirmedPacketsReceived,
    g_isConfirmedMode,
    receptions,             \* <<device index, fcnt>> -> times the gateway MAC received it
    \* --- scenario 0: the SimpleSender application
    m_nPkts,
    m_sent,
    m_event,                \* "none" | "pending" | "expired" | "cancelled"
    m_expIat,
    appState,               \* "idle" | "configured" | "started" | "stopped"
    devSent                 \* packets handed to m_dev->Send

s8vars == <<now, phase, mappingPending, macFCnt, aired, heardFrames, hearingsAtGw, heardAt,
            firstFlagged, rxCalls,
            g_nGateways, g_gwNodeIdToIdx, g_deviceToNodeMap, g_seenKeys,
            g_totalSent, g_totalReceived, g_totalRaw, g_totalUnique, g_totalDuplicate,
            g_sentPacketsPerNode, g_receivedPacketsPerNode, g_rawHearingsPerNode,
            g_uniqueRecvPerNode, g_rawPerGwPerNode, g_uniquePerGwPerNode,
            g_totalRawPerGw, csvOwner>>
keyvars == <<keyIn, keyOut>>
propvars == <<m_pathLossModel, m_shadowingModel, m_detailsCache, lastCalc, overwrote,
              lastReturned>>
s6vars == <<g_nodeDistances, g_estRssiPerNode, g_rssiThreshold, g_isNearNode,
            g_nearCohortSent, g_nearCohortReceived, g_farCohortSent, g_farCohortReceived,
            edDistance, delivered, countedAs, csvCapture>>
s3vars == <<g_lostInterf, g_interfPerGw, g_collisionsPerNode, g_interferencePerNode,
            g_currentSpreadingFactor, g_totalAirTimePerNode, g_totalAirTime, lastLoss>>
fnvars == <<fnArgs, fnResult>>
s4vars == <<g_retransmissionsPerNode, g_frameCountersPerNode, g_lastFrameCountPerNode,
            g_totalRetransmissions, g_confirmedPacketsSent, g_confirmedPacketsReceived,
            g_isConfirmedMode, receptions>>
\* the subsystems added last, kept together
ssvars == <<m_nPkts, m_sent, m_event, m_expIat, appState, devSent>>
latevars == <<s4vars, ssvars>>
vars == <<s8vars, keyvars, propvars, s6vars, s3vars, fnvars, latevars>>

\* ------------------------------------------------------------------ helpers
\* f[0] + ... + f[hi]
RECURSIVE SumUpTo(_, _)
SumUpTo(f, hi) == IF hi < 0 THEN 0 ELSE f[hi] + SumUpTo(f, hi - 1)

\* bitwise or of two limbs, bit by bit
RECURSIVE BitOr(_, _, _)
BitOr(x, y, bits) ==
    IF bits = 0 THEN 0
    ELSE IF x = 0 THEN y % LimbMod
    ELSE IF y = 0 THEN x % LimbMod
    ELSE (IF (x % 2 = 1) \/ (y % 2 = 1) THEN 1 ELSE 0)
         + 2 * BitOr(x \div 2, y \div 2, bits - 1)

\* static_cast<std::uint64_t>(x) of a uint32_t
Widen64(x) == <<0, 0, x[1], x[2]>>
\* x << 32 on a uint64_t: the two high limbs fall off
Shl32(x) == <<x[3], x[4], 0, 0>>
\* x << 16 on a uint64_t
Shl16(x) == <<x[2], x[3], x[4], 0>>
\* x | y on uint64_t
Or64(x, y) == [i \in 1..4 |-> BitOr(x[i], y[i], LimbBits)]

\* ------------------------------------------------------------ MakePacketKey
\* a plausible slip: the device address is shifted by 16 instead of 32
MakePacketKeyShift16(devaddr, fcnt) == Or64(Shl16(Widen64(devaddr)), Widen64(fcnt))

MakePacketKey(devaddr, fcnt) == Or64(Shl32(Widen64(devaddr)), Widen64(fcnt))

\* ===================================================== scenario 8: topology
\* main: nGateways must be 1, 2 or 4
GatewayCounts == {1, 2, MaxGateways}
Devices == 0 .. NumDevices - 1
GwIdxs == 0 .. MaxGateways - 1
\* gateways.Create(nGateways) comes first, so gateway i is node i ...
GwNodeId(i) == i
\* ... and endDevices.Create(nDevices) follows
EdNodeId(d) == g_nGateways + d
NodeIds == 0 .. MaxGateways + NumDevices - 1
EdNodes == {EdNodeId(d) : d \in Devices}

\* the address the generator of SetupStandardLoRa gives end device d, as Get() returns it
DevAddr(d) ==
    LET v == NwkId * NwkAddrMod + NwkAddr + d
    IN  <<v \div LimbMod, v % LimbMod>>

\* the uplink frame of device d with frame counter f (GetFCnt is 16 bits wide)
UplinkPacket(d, f) == [size |-> 1, uplink |-> TRUE, addr |-> DevAddr(d), fcnt |-> <<0, f>>]
\* the context Config::Connect passes for the gateway with node id n
GwContext(n) == [needle |-> "/NodeList/", digits |-> n]

ExtractGatewayNodeIdFromContext(ctx) ==
    IF ctx.needle = "/NodeList/" THEN ctx.digits ELSE 0

ZeroPerNode == [n \in NodeIds |-> 0]
ZeroPerGw == [g \in GwIdxs |-> 0]
Bump(f, k) == [f EXCEPT ![k] = @ + 1]

\* ====================================================== scenario 8: handlers
\* a plausible slip: the packet is counted in the per-node map only
OnPacketSentNoTotal(nodeId) ==
    /\ g_sentPacketsPerNode' = Bump(g_sentPacketsPerNode, nodeId)
    /\ g_totalSent' = g_totalSent

OnPacketSent(nodeId) ==
    /\ g_sentPacketsPerNode' = Bump(g_sentPacketsPerNode, nodeId)
    /\ g_totalSent' = g_totalSent + 1

\* the globals OnGatewayReceiveWithContext may write
rxGlobals == <<g_seenKeys, g_totalRaw, g_totalUnique, g_totalDuplicate,
               g_rawHearingsPerNode, g_uniqueRecvPerNode, g_rawPerGwPerNode,
               g_uniquePerGwPerNode, g_totalRawPerGw>>
rawGlobals == <<g_totalRaw, g_rawHearingsPerNode, g_uniqueRecvPerNode,
                g_rawPerGwPerNode, g_uniquePerGwPerNode, g_totalRawPerGw>>

\* a plausible slip: the iterator of insert() is tested, which is never null
InsertAlwaysNew(key) == TRUE

\* g_seenKeys.insert(key).second
InsertIsNew(key) == key \notin g_seenKeys

\* a plausible slip: the else branch is missing
CountHearingNoDuplicates(firstTime) ==
    /\ g_totalUnique' = IF firstTime THEN g_totalUnique + 1 ELSE g_totalUnique
    /\ g_totalDuplicate' = g_totalDuplicate

\* if (firstTime) g_totalUnique++; else g_totalDuplicate++;
CountHearing(firstTime) ==
    /\ g_totalUnique' = IF firstTime THEN g_totalUnique + 1 ELSE g_totalUnique
    /\ g_totalDuplicate' = IF firstTime THEN g_totalDuplicate ELSE g_totalDuplicate + 1

\* a plausible slip: the raw counters sit inside if (firstTime)
RecordHearingRawIfFirst(firstTime, nodeId, gwIdx) ==
    /\ g_totalRaw' = IF firstTime THEN g_totalRaw + 1 ELSE g_totalRaw
    /\ g_rawHearingsPerNode' =
           IF firstTime THEN Bump(g_rawHearingsPerNode, nodeId) ELSE g_rawHearingsPerNode
    /\ g_rawPerGwPerNode' =
           IF firstTime THEN [g_rawPerGwPerNode EXCEPT ![nodeId] = Bump(@, gwIdx)]
           ELSE g_rawPerGwPerNode
    /\ g_totalRawPerGw' = IF firstTime THEN Bump(g_totalRawPerGw, gwIdx) ELSE g_totalRawPerGw
    /\ g_uniqueRecvPerNode' =
           IF firstTime THEN Bump(g_uniqueRecvPerNode, nodeId) ELSE g_uniqueRecvPerNode
    /\ g_uniquePerGwPerNode' =
           IF firstTime THEN [g_uniquePerGwPerNode EXCEPT ![nodeId] = Bump(@, gwIdx)]
           ELSE g_uniquePerGwPerNode

\* a plausible slip: the per-gateway total is indexed by the node
RecordHearingGwTotalByNode(firstTime, nodeId, gwIdx) ==
    /\ g_totalRaw' = g_totalRaw + 1
    /\ g_rawHearingsPerNode' = Bump(g_rawHearingsPerNode, nodeId)
    /\ g_rawPerGwPerNode' = [g_rawPerGwPerNode EXCEPT ![nodeId] = Bump(@, gwIdx)]
    /\ g_totalRawPerGw' = Bump(g_totalRawPerGw, nodeId % MaxGateways)
    /\ g_uniqueRecvPerNode' =
           IF firstTime THEN Bump(g_uniqueRecvPerNode, nodeId) ELSE g_uniqueRecvPerNode
    /\ g_uniquePerGwPerNode' =
           IF firstTime THEN [g_uniquePerGwPerNode EXCEPT ![nodeId] = Bump(@, gwIdx)]
           ELSE g_uniquePerGwPerNode

\* a plausible slip: the unique counters are outside if (firstTime)
RecordHearingUniqueAlways(firstTime, nodeId, gwIdx) ==
    /\ g_totalRaw' = g_totalRaw + 1
    /\ g_rawHearingsPerNode' = Bump(g_rawHearingsPerNode, nodeId)
    /\ g_rawPerGwPerNode' = [g_rawPerGwPerNode EXCEPT ![nodeId] = Bump(@, gwIdx)]
    /\ g_totalRawPerGw' = Bump(g_totalRawPerGw, gwIdx)
    /\ g_uniqueRecvPerNode' = Bump(g_uniqueRecvPerNode, nodeId)
    /\ g_uniquePerGwPerNode' = [g_uniquePerGwPerNode EXCEPT ![nodeId] = Bump(@, gwIdx)]

\* a plausible slip: g_rawHearingsPerNode[nodeId]++ is missing
RecordHearingNoNodeRaw(firstTime, nodeId, gwIdx) ==
    /\ g_totalRaw' = g_totalRaw + 1
    /\ g_rawHearingsPerNode' = g_rawHearingsPerNode
    /\ g_rawPerGwPerNode' = [g_rawPerGwPerNode EXCEPT ![nodeId] = Bump(@, gwIdx)]
    /\ g_totalRawPerGw' = Bump(g_totalRawPerGw, gwIdx)
    /\ g_uniqueRecvPerNode' =
           IF firstTime THEN Bump(g_uniqueRecvPerNode, nodeId) ELSE g_uniqueRecvPerNode
    /\ g_uniquePerGwPerNode' =
           IF firstTime THEN [g_uniquePerGwPerNode EXCEPT ![nodeId] = Bump(@, gwIdx)]
           ELSE g_uniquePerGwPerNode

\* the counters written once the gateway and the node are known
RecordHearing(firstTime, nodeId, gwIdx) ==
    /\ g_totalRaw' = g_totalRaw + 1
    /\ g_rawHearingsPerNode' = Bump(g_rawHearingsPerNode, nodeId)
    /\ g_rawPerGwPerNode' = [g_rawPerGwPerNode EXCEPT ![nodeId] = Bump(@, gwIdx)]
    /\ g_totalRawPerGw' = Bump(g_totalRawPerGw, gwIdx)
    /\ g_uniqueRecvPerNode' =
           IF firstTime THEN Bump(g_uniqueRecvPerNode, nodeId) ELSE g_uniqueRecvPerNode
    /\ g_uniquePerGwPerNode' =
           IF firstTime THEN [g_uniquePerGwPerNode EXCEPT ![nodeId] = Bump(@, gwIdx)]
           ELSE g_uniquePerGwPerNode

OnGatewayReceiveWithContext(context, pkt) ==
    IF pkt.size = 0 \/ ~pkt.uplink
    THEN UNCHANGED rxGlobals
    ELSE
      LET dev == pkt.addr
          key == MakePacketKey(dev, pkt.fcnt)
          firstTime == InsertIsNew(key)
          gwNodeId == ExtractGatewayNodeIdFromContext(context)
      IN
        /\ g_seenKeys' = g_seenKeys \cup {key}
        /\ CountHearing(firstTime)
        /\ IF gwNodeId \notin DOMAIN g_gwNodeIdToIdx \/ dev \notin DOMAIN g_deviceToNodeMap
           THEN UNCHANGED rawGlobals
           ELSE RecordHearing(firstTime, g_deviceToNodeMap[dev], g_gwNodeIdToIdx[gwNodeId])

BuildStandardDeviceMapping ==
    /\ g_deviceToNodeMap' =
           [a \in DOMAIN g_deviceToNodeMap \cup {DevAddr(d) : d \in Devices} |->
               IF \E d \in Devices : DevAddr(d) = a
               THEN EdNodeId(CHOOSE d \in Devices : DevAddr(d) = a)
               ELSE g_deviceToNodeMap[a]]
    /\ g_sentPacketsPerNode' =
           [n \in NodeIds |-> IF n \in EdNodes THEN 0 ELSE g_sentPacketsPerNode[n]]
    /\ g_receivedPacketsPerNode' =
           [n \in NodeIds |-> IF n \in EdNodes THEN 0 ELSE g_receivedPacketsPerNode[n]]

BuildMappingScenario8 ==
    /\ BuildStandardDeviceMapping
    /\ g_rawHearingsPerNode' =
           [n \in NodeIds |-> IF n \in EdNodes THEN 0 ELSE g_rawHearingsPerNode[n]]
    /\ g_uniqueRecvPerNode' =
           [n \in NodeIds |-> IF n \in EdNodes THEN 0 ELSE g_uniqueRecvPerNode[n]]

BuildGatewayMapping(n) == [id \in {GwNodeId(i) : i \in 0 .. n - 1} |-> id]

\* a plausible slip: >= lets a later gateway with the same count take over
TakesOverOnTie(cnt, bestCnt) == cnt >= bestCnt

\* if (cnt > bestCnt) { bestCnt = cnt; owner = gw; }
TakesOver(cnt, bestCnt) == cnt > bestCnt

\* the owner loop of ExportScenario8, from gateway gw on
RECURSIVE OwnerScan(_, _, _, _)
OwnerScan(nodeId, gw, owner, bestCnt) ==
    IF gw >= g_nGateways THEN owner
    ELSE LET cnt == g_uniquePerGwPerNode[nodeId][gw]
         IN  IF TakesOver(cnt, bestCnt)
             THEN OwnerScan(nodeId, gw + 1, gw, cnt)
             ELSE OwnerScan(nodeId, gw + 1, owner, bestCnt)

\* ======================================================= scenario 8: the run
s8ghosts == <<heardFrames, hearingsAtGw, heardAt, firstFlagged, rxCalls>>
otherThanS8 == <<keyvars, propvars, s6vars, s3vars, fnvars, latevars>>

S8InitWith(nGateways) ==
    /\ now = 0
    /\ phase = "run"
    /\ mappingPending = TRUE
    /\ macFCnt = [d \in Devices |-> 0]
    /\ aired = {}
    /\ heardFrames = {}
    /\ hearingsAtGw = ZeroPerGw
    /\ heardAt = [d \in Devices |-> ZeroPerGw]
    /\ firstFlagged = [k \in Devices \X (0 .. MaxUplinks - 1) |-> 0]
    /\ rxCalls = 0
    /\ g_nGateways = nGateways
    /\ g_gwNodeIdToIdx = BuildGatewayMapping(g_nGateways)
    /\ g_deviceToNodeMap = [a \in {} |-> 0]
    /\ g_seenKeys = {}
    /\ g_totalSent = 0
    /\ g_totalReceived = 0
    /\ g_totalRaw = 0
    /\ g_totalUnique = 0
    /\ g_totalDuplicate = 0
    /\ g_sentPacketsPerNode = ZeroPerNode
    /\ g_receivedPacketsPerNode = ZeroPerNode
    /\ g_rawHearingsPerNode = ZeroPerNode
    /\ g_uniqueRecvPerNode = ZeroPerNode
    /\ g_rawPerGwPerNode = [n \in NodeIds |-> ZeroPerGw]
    /\ g_uniquePerGwPerNode = [n \in NodeIds |-> ZeroPerGw]
    /\ g_totalRawPerGw = ZeroPerGw
    /\ csvOwner = [n \in {} |-> 0]

\* main has parsed nGateways and built the gateway mapping; Simulator::Run starts
S8Init == \E n \in GatewayCounts : S8InitWith(n)
\* scenario 8 not running
S8Idle == S8InitWith(1)

\* the instants at which something is scheduled: the mapping, the start of the
\* applications (whose sends and receptions fill the time up to the stop), the stop
Instants == (IF mappingPending THEN {MappingTick} ELSE {}) \cup {AppStartTick, StopTick}
LaterInstants == {t \in Instants : t > now}

\* the simulator moves on to the next instant once nothing is queued for this one
Tick ==
    /\ phase = "run"
    /\ ~(mappingPending /\ now = MappingTick)
    /\ LaterInstants # {}
    /\ now' = CHOOSE t \in LaterInstants : \A u \in LaterInstants : t <= u
    /\ now' < StopTick
    /\ UNCHANGED <<phase, mappingPending, macFCnt, aired, s8ghosts, g_nGateways,
                   g_gwNodeIdToIdx, g_deviceToNodeMap, g_totalSent, g_totalReceived,
                   g_sentPacketsPerNode, g_receivedPacketsPerNode, rxGlobals, csvOwner>>
    /\ UNCHANGED otherThanS8

\* the event SetupStandardTiming scheduled for 1.0 s
RunBuildMapping ==
    /\ phase = "run"
    /\ mappingPending
    /\ now = MappingTick
    /\ BuildMappingScenario8
    /\ mappingPending' = FALSE
    /\ UNCHANGED <<now, phase, macFCnt, aired, s8ghosts, g_nGateways, g_gwNodeIdToIdx,
                   g_totalSent, g_totalReceived, g_seenKeys, g_totalRaw, g_totalUnique,
                   g_totalDuplicate, g_rawPerGwPerNode, g_uniquePerGwPerNode,
                   g_totalRawPerGw, csvOwner>>
    /\ UNCHANGED otherThanS8

\* the application of end device d sends a new uplink (SentNewPacket fires);
\* applications run from 1.1 s to 0.1 s before the end
SendUplink(d) ==
    /\ phase = "run"
    /\ AppStartTick <= now
    /\ now < StopTick
    /\ Cardinality(aired) < MaxUplinks
    /\ aired' = aired \cup {<<d, macFCnt[d]>>}
    /\ macFCnt' = Bump(macFCnt, d)
    /\ OnPacketSent(EdNodeId(d))
    /\ UNCHANGED <<now, phase, mappingPending, s8ghosts, g_nGateways, g_gwNodeIdToIdx,
                   g_deviceToNodeMap, g_totalReceived, g_receivedPacketsPerNode,
                   rxGlobals, csvOwner>>
    /\ UNCHANGED otherThanS8

\* gateway gw hears the uplink f of device d (ReceivedPacket fires at its MAC)
GatewayHears(d, f, gw) ==
    /\ phase = "run"
    /\ now < StopTick
    /\ <<d, f>> \in aired
    /\ gw < g_nGateways
    /\ rxCalls < MaxHearings
    /\ OnGatewayReceiveWithContext(GwContext(GwNodeId(gw)), UplinkPacket(d, f))
    /\ rxCalls' = rxCalls + 1
    /\ heardFrames' = heardFrames \cup {<<d, f>>}
    /\ hearingsAtGw' = Bump(hearingsAtGw, gw)
    /\ heardAt' = [heardAt EXCEPT ![d] = Bump(heardAt[d], gw)]
    /\ firstFlagged' = IF g_totalUnique' # g_totalUnique
                       THEN Bump(firstFlagged, <<d, f>>)
                       ELSE firstFlagged
    /\ UNCHANGED <<now, phase, mappingPending, macFCnt, aired, g_nGateways,
                   g_gwNodeIdToIdx, g_deviceToNodeMap, g_totalSent, g_totalReceived,
                   g_sentPacketsPerNode, g_receivedPacketsPerNode, csvOwner>>
    /\ UNCHANGED otherThanS8

\* the stop event fires, Simulator::Run returns and main exports: the
\* PER_NODE_STATS owner column is written
ExportScenario8 ==
    /\ phase = "run"
    /\ ~(mappingPending /\ now = MappingTick)
    /\ \A t \in LaterInstants : t = StopTick
    /\ now' = StopTick
    /\ phase' = "exported"
    /\ csvOwner' = [n \in EdNodes |-> OwnerScan(n, 0, 0, 0)]
    /\ UNCHANGED <<mappingPending, macFCnt, aired, s8ghosts, g_nGateways,
                   g_gwNodeIdToIdx, g_deviceToNodeMap, g_totalSent, g_totalReceived,
                   g_sentPacketsPerNode, g_receivedPacketsPerNode, rxGlobals>>
    /\ UNCHANGED otherThanS8

S8Next ==
    \/ Tick
    \/ RunBuildMapping
    \/ \E d \in Devices : SendUplink(d)
    \/ \E d \in Devices, f \in 0 .. MaxUplinks - 1, gw \in GwIdxs : GatewayHears(d, f, gw)
    \/ ExportScenario8

\* ============================================== MakePacketKey on its own
\* 32-bit arguments: small values, values with only high bits, the extremes
U32Samples == {<<0, 0>>, <<0, 1>>, <<0, 3>>, <<0, 5>>, <<3, 0>>, <<5, 0>>,
               <<1, 0>>, <<0, LimbMod - 1>>, <<LimbMod - 1, LimbMod - 1>>}
KeyArgs == U32Samples \X U32Samples

KeyIdle ==
    /\ keyIn = <<>>
    /\ keyOut = <<>>

KeyInit ==
    /\ keyIn \in KeyArgs \X KeyArgs
    /\ keyOut = <<>>

\* both argument pairs are packed
PackKeys ==
    /\ keyOut = <<>>
    /\ keyOut' = <<MakePacketKey(keyIn[1][1], keyIn[1][2]),
                   MakePacketKey(keyIn[2][1], keyIn[2][2])>>
    /\ UNCHANGED keyIn
    /\ UNCHANGED <<s8vars, propvars, s6vars, s3vars, fnvars, latevars>>

\* =========================================== DetailedPropagationLossModel
PropNodes == {0, 1}
\* node id -> position on a line, in metres (ConstantPositionMobilityModel)
PropPos == [n \in PropNodes |-> IF n = 0 THEN 0 ELSE 100]
GetDistanceFrom(a, b) == IF PropPos[a] >= PropPos[b] THEN PropPos[a] - PropPos[b]
                         ELSE PropPos[b] - PropPos[a]
TxPowers == {2, 14}
\* what the shadowing model's random variable may draw, in dB
ShadowDraws == {0, 3}
\* the path-loss model behind m_pathLossModel: a loss that grows with distance
PathLossCalcRxPower(txPowerDbm, a, b) == txPowerDbm - (8 + GetDistanceFrom(a, b) \div 10)
\* RandomPropagationLossModel: the power less the value drawn
ShadowingCalcRxPower(txPowerDbm, draw) == txPowerDbm - draw

ZeroDetails == [distance_m |-> 0, path_loss_db |-> 0, shadowing_db |-> 0, total_loss_db |-> 0]

\* the PropagationDetails DoCalcRxPower builds
CalcDetails(txPowerDbm, a, b, draw) ==
    LET rxAfterPathLoss == IF m_pathLossModel # "null"
                           THEN PathLossCalcRxPower(txPowerDbm, a, b)
                           ELSE txPowerDbm
        rxAfterShadowing == IF m_shadowingModel # "null"
                            THEN ShadowingCalcRxPower(rxAfterPathLoss, draw)
                            ELSE rxAfterPathLoss
    IN  [distance_m |-> GetDistanceFrom(a, b),
         path_loss_db |-> txPowerDbm - rxAfterPathLoss,
         shadowing_db |-> IF m_shadowingModel # "null"
                          THEN rxAfterPathLoss - rxAfterShadowing ELSE 0,
         total_loss_db |-> txPowerDbm - rxAfterShadowing]

\* a plausible slip: the cache is keyed by the unordered pair
CacheKeyUnordered(idA, idB) == IF idA <= idB THEN <<idA, idB>> ELSE <<idB, idA>>

\* std::make_pair(idA, idB)
CacheKey(idA, idB) == <<idA, idB>>

\* a plausible slip: insert() instead of operator[]= keeps the first entry of a pair
CacheStoreKeepFirst(cache, key, details) ==
    IF key \in DOMAIN cache THEN cache
    ELSE [k \in DOMAIN cache \cup {key} |-> IF k = key THEN details ELSE cache[k]]

\* m_detailsCache[key] = details
CacheStore(cache, key, details) ==
    [k \in DOMAIN cache \cup {key} |-> IF k = key THEN details ELSE cache[k]]

GetLastDetails(a, b) ==
    IF CacheKey(a, b) \in DOMAIN m_detailsCache
    THEN m_detailsCache[CacheKey(a, b)]
    ELSE ZeroDetails

PropIdle ==
    /\ m_pathLossModel = "null"
    /\ m_shadowingModel = "null"
    /\ m_detailsCache = [k \in {} |-> ZeroDetails]
    /\ lastCalc = [k \in {} |-> ZeroDetails]
    /\ overwrote = FALSE
    /\ lastReturned = <<>>

SetPathLossModel(model) ==
    /\ m_pathLossModel' = model
    /\ UNCHANGED <<m_shadowingModel, m_detailsCache, lastCalc, overwrote, lastReturned>>
    /\ UNCHANGED <<s8vars, keyvars, s6vars, s3vars, fnvars, latevars>>

SetShadowingModel(model) ==
    /\ m_shadowingModel' = model
    /\ UNCHANGED <<m_pathLossModel, m_detailsCache, lastCalc, overwrote, lastReturned>>
    /\ UNCHANGED <<s8vars, keyvars, s6vars, s3vars, fnvars, latevars>>

DoCalcRxPower(txPowerDbm, a, b, draw) ==
    LET details == CalcDetails(txPowerDbm, a, b, draw)
    IN  /\ m_detailsCache' = CacheStore(m_detailsCache, CacheKey(a, b), details)
        /\ lastCalc' = [k \in DOMAIN lastCalc \cup {<<a, b>>} |->
                           IF k = <<a, b>> THEN details ELSE lastCalc[k]]
        /\ overwrote' = (overwrote \/ (<<a, b>> \in DOMAIN lastCalc
                                        /\ lastCalc[<<a, b>>] # details))
        /\ lastReturned' = <<>>
        /\ UNCHANGED <<m_pathLossModel, m_shadowingModel>>
        /\ UNCHANGED <<s8vars, keyvars, s6vars, s3vars, fnvars, latevars>>

\* a trace callback asks for the breakdown of a pair
CallGetLastDetails(a, b) ==
    /\ lastReturned' = [tx |-> a, rx |-> b, details |-> GetLastDetails(a, b)]
    /\ UNCHANGED <<m_pathLossModel, m_shadowingModel, m_detailsCache, lastCalc, overwrote>>
    /\ UNCHANGED <<s8vars, keyvars, s6vars, s3vars, fnvars, latevars>>

PropNext ==
    \/ \E model \in {"null", "model"} : SetPathLossModel(model)
    \/ \E model \in {"null", "model"} : SetShadowingModel(model)
    \/ \E txPowerDbm \in TxPowers, a \in PropNodes, b \in PropNodes, draw \in ShadowDraws :
          DoCalcRxPower(txPowerDbm, a, b, draw)
    \/ \E a \in PropNodes, b \in PropNodes : CallGetLastDetails(a, b)

\* ================================================= doubles and plain helpers
\* A double that counts or divides counts is held in thousandths; a division
\* follows IEEE 754 at a zero divisor (0/0 is NaN, x/0 is infinite).
Finite(x) == [fp |-> "finite", val |-> x]
NaN == [fp |-> "nan", val |-> 0]
Infinite == [fp |-> "inf", val |-> 0]
\* a / b for counts a and b, as a double
FDiv(a, b) == IF b = 0 THEN (IF a = 0 THEN NaN ELSE Infinite) ELSE Finite((1000 * a) \div b)
\* a - b for finite doubles
FSub(a, b) == Finite(a.val - b.val)

Max(a, b) == IF a >= b THEN a ELSE b
Min(a, b) == IF a <= b THEN a ELSE b
\* std::clamp
Clamp(x, lo, hi) == IF x < lo THEN lo ELSE IF x > hi THEN hi ELSE x
\* the integer a double truncates to, for the double num / den with den > 0
Truncate(num, den) == IF num >= 0 THEN num \div den ELSE -((-num) \div den)
\* std::ceil of num / den with den > 0
Ceil(num, den) == -((-num) \div den)
RECURSIVE Pow2(_)
Pow2(n) == IF n = 0 THEN 1 ELSE 2 * Pow2(n - 1)
Range(seq) == {seq[i] : i \in DOMAIN seq}

\* ================================================== lora_utils.h: the rates
\* a plausible slip: the division without the test of the denominator
RatePercentUnguarded(num, den) == FDiv(100 * num, den)

RatePercent(num, den) == IF den # 0 THEN FDiv(100 * num, den) ELSE Finite(0)

PdrPercent(received, sent) == RatePercent(received, sent)

DeduplicationRatePercent(duplicates, total_hearings) ==
    IF total_hearings # 0 THEN FDiv(100 * duplicates, total_hearings) ELSE Finite(0)

DropRatePercent(lost, sent) == RatePercent(lost, sent)

\* scenario 6: sent > 0 ? lora::PdrPercent(received, sent) : 0.0
CohortPdr(received, sent) == IF sent > 0 THEN PdrPercent(received, sent) ELSE Finite(0)

\* packet counts: none, one, and counts whose rates are whole percentages
CountSamples == {0, 1, 8, 12, 15, 19, 20, 40, 95, 100}

FnIdle ==
    /\ fnArgs = <<>>
    /\ fnResult = <<>>

RateInit ==
    /\ fnArgs \in [num : CountSamples, den : CountSamples]
    /\ fnResult = <<>>

\* every rate function is applied to the counts drawn
RateCall ==
    /\ fnResult = <<>>
    /\ fnResult' = [rate |-> RatePercent(fnArgs.num, fnArgs.den),
                    pdr |-> PdrPercent(fnArgs.num, fnArgs.den),
                    drop |-> DropRatePercent(fnArgs.num, fnArgs.den),
                    dedup |-> DeduplicationRatePercent(fnArgs.num, fnArgs.den),
                    cohort |-> CohortPdr(fnArgs.num, fnArgs.den)]
    /\ UNCHANGED fnArgs
    /\ UNCHANGED <<s8vars, keyvars, propvars, s6vars, s3vars, latevars>>

\* ======================================= scenario 6: the capture-effect level
\* ExportResults: CaptureEffectLevel of the CSV
CaptureLevelCsv(captureEffectStrength) ==
    IF captureEffectStrength.val > 20000 THEN "STRONG"
    ELSE IF captureEffectStrength.val > 10000 THEN "MODERATE"
    ELSE IF captureEffectStrength.val > 5000 THEN "WEAK"
    ELSE "NONE"

\* main: the level printed on the console ("Strong capture effect detected!",
\* "Moderate ...", "Weak ...", "No significant capture effect detected")
CaptureLevelConsole(captureStrength) ==
    IF captureStrength.val > 10000 THEN "STRONG"
    ELSE IF captureStrength.val > 5000 THEN "MODERATE"
    ELSE IF captureStrength.val > 0 THEN "WEAK"
    ELSE "NONE"

\* what ExportResults and main report from the four cohort counters
CaptureReport(nearSent, nearReceived, farSent, farReceived) ==
    LET nearPdr == CohortPdr(nearReceived, nearSent)
        farPdr == CohortPdr(farReceived, farSent)
        strength == FSub(nearPdr, farPdr)
    IN  [nearPdr |-> nearPdr, farPdr |-> farPdr, captureEffectStrength |-> strength,
         csvLevel |-> CaptureLevelCsv(strength),
         consoleLevel |-> CaptureLevelConsole(strength)]

\* <<received, sent>> of a cohort: an empty cohort, 20 or 100 packets sent
CohortCounts == {c \in CountSamples \X {0, 20, 100} : c[1] <= c[2]}

CaptureInit ==
    /\ fnArgs \in [near : CohortCounts, far : CohortCounts]
    /\ fnResult = <<>>

\* the run has ended with the counters drawn; main prints and ExportResults writes
CaptureCall ==
    /\ fnResult = <<>>
    /\ fnResult' = CaptureReport(fnArgs.near[2], fnArgs.near[1],
                                 fnArgs.far[2], fnArgs.far[1])
    /\ UNCHANGED fnArgs
    /\ UNCHANGED <<s8vars, keyvars, propvars, s6vars, s3vars, latevars>>

\* ============================== TraceCallbacks::CalculatePercentile (traces.cc)
RECURSIVE InsertSorted(_, _)
InsertSorted(x, sorted) ==
    IF sorted = <<>> THEN <<x>>
    ELSE IF x <= Head(sorted) THEN <<x>> \o sorted
    ELSE <<Head(sorted)>> \o InsertSorted(x, Tail(sorted))

\* a plausible slip: the copy is used as it came
SortNot(data) == data

\* std::sort(sorted.begin(), sorted.end())
RECURSIVE SortAscending(_)
SortAscending(data) ==
    IF data = <<>> THEN <<>> ELSE InsertSorted(Head(data), SortAscending(Tail(data)))

\* a value far above any size, standing for a size_t near its maximum
SizeMaxLike == 2147483647
\* static_cast<size_t> of a double below -1 is undefined: what a build may yield
CastOutcomes(size) == {0, size - 1, size, SizeMaxLike}

\* static_cast<size_t>(percentile / 100.0 * size): the double truncates toward
\* zero; cast is the value the build yields where the conversion is undefined
IndexOf(percentile, size, cast) ==
    IF percentile * size <= -100 THEN cast ELSE Truncate(percentile * size, 100)

\* a plausible slip: the index is used as computed
ClampIndexNot(index, size) == index

\* if (index >= sorted.size()) index = sorted.size() - 1
ClampIndex(index, size) == IF index >= size THEN size - 1 ELSE index

\* the value returned and the index read (-1: nothing read); the last branch
\* stands for a read outside the vector, which the clamp rules out
CalculatePercentile(data, percentile, cast) ==
    IF data = <<>> THEN [value |-> 0, index |-> -1, cast |-> cast]
    ELSE LET sorted == SortAscending(data)
             index == ClampIndex(IndexOf(percentile, Len(sorted), cast), Len(sorted))
         IN  [value |-> IF index + 1 \in DOMAIN sorted THEN sorted[index + 1] ELSE -1,
              index |-> index, cast |-> cast]

\* latencies, in ms
SampleValues == {10, 20, 30, 40}
RECURSIVE SeqsUpTo(_, _)
SeqsUpTo(S, n) ==
    IF n = 0 THEN {<<>>}
    ELSE LET shorter == SeqsUpTo(S, n - 1)
         IN  shorter \cup {Append(q, x) : q \in {r \in shorter : Len(r) = n - 1}, x \in S}
\* percentiles asked for: the ends, inside, and outside 0 .. 100
Percentiles == {-50, -10, 0, 25, 50, 75, 100, 150}

PercentileInit ==
    /\ fnArgs \in [data : SeqsUpTo(SampleValues, MaxSamples), percentile : Percentiles]
    /\ fnResult = <<>>

PercentileCall ==
    /\ fnResult = <<>>
    /\ \E cast \in CastOutcomes(Len(fnArgs.data)) :
          fnResult' = CalculatePercentile(fnArgs.data, fnArgs.percentile, cast)
    /\ UNCHANGED fnArgs
    /\ UNCHANGED <<s8vars, keyvars, propvars, s6vars, s3vars, latevars>>

\* ========================================================== time on air
\* a plausible slip: the symbol time of SF7 whatever the spreading factor
SymbolTimeOfSf7(sf, bw_hz) == (128 * 1000) \div (bw_hz \div 1000)

\* lora::SymbolTime_ms, T_sym = 2^SF / BW, held in microseconds (bandwidths are
\* whole kHz)
SymbolTime_ms(sf, bw_hz) == (Pow2(sf) * 1000) \div (bw_hz \div 1000)

LdrOptimization(sf) == IF sf >= 11 THEN 1 ELSE 0

\* lora::ToA_ms with the default preamble (8 + 4.25 symbols), in quarters of a
\* microsecond
ToA_ms(sf0, bw_hz, cr, payload_bytes, explicit_header, crc_on) ==
    LET sf == Clamp(sf0, 7, 12)
        tsym == SymbolTime_ms(sf, bw_hz)
        DE == LdrOptimization(sf)
        IH == IF explicit_header THEN 0 ELSE 1
        CRC == IF crc_on THEN 1 ELSE 0
        num == Max(0, Ceil(8 * payload_bytes - 4 * sf + 28 + 16 * CRC - 20 * IH,
                           4 * (sf - 2 * DE)) * (cr + 4))
        payload_symbols == 8 + num
    IN  Finite((49 + 4 * payload_symbols) * tsym)

\* MetricsCalculator::CalculateToA, in quarters of a microsecond; at sf = 0 the
\* division by 4 * sf is infinite and so is the result
CalculateToA(sf, bw_hz, cr, payload_bytes) ==
    LET t_sym == SymbolTime_ms(sf, bw_hz)
        de == IF sf >= 11 THEN 1 ELSE 0
    IN  IF sf - 2 * de = 0 THEN Infinite
        ELSE LET payload_symbols ==
                     8 + Max(Ceil(8 * payload_bytes - 4 * sf + 28 + 16, 4 * (sf - 2 * de))
                               * (cr + 4), 0)
             IN  Finite((49 + 4 * payload_symbols) * t_sym)

\* uint8_t sf: below, inside and above 7 .. 12
SfSamples == {0, 5, 6, 7, 8, 9, 10, 11, 12, 13, 14}

ToAInit ==
    /\ fnArgs \in [sf : SfSamples, bw_hz : {125000, 250000, 500000}, cr : {1, 4},
                   payload_bytes : {0, 10, 51, 255}, explicit_header : BOOLEAN,
                   crc_on : BOOLEAN]
    /\ fnResult = <<>>

\* both time-on-air functions, at the sf drawn and at the ends of 7 .. 12, and
\* ToA_ms at the next sf
ToACall ==
    /\ fnResult = <<>>
    /\ LET a == fnArgs
           toa(sf) == ToA_ms(sf, a.bw_hz, a.cr, a.payload_bytes, a.explicit_header,
                             a.crc_on)
           calc(sf) == CalculateToA(sf, a.bw_hz, a.cr, a.payload_bytes)
       IN  fnResult' = [ToA_ms |-> toa(a.sf), ToA_ms_7 |-> toa(7), ToA_ms_12 |-> toa(12),
                        ToA_ms_next |-> toa(a.sf + 1),
                        CalculateToA |-> calc(a.sf), CalculateToA_7 |-> calc(7),
                        CalculateToA_12 |-> calc(12)]
    /\ UNCHANGED fnArgs
    /\ UNCHANGED <<s8vars, keyvars, propvars, s6vars, s3vars, latevars>>

\* ============================================ scenarios 3 and 6: topology
\* endDevices.Create(nDevices) comes first in these programs, so end device d is
\* node d and the gateways follow
EdNodeIdFirst(d) == d
EdFirstNodes == {EdNodeIdFirst(d) : d \in Devices}
GwNodeIdAfter(i) == NumDevices + i
\* a frame as the handlers decode it: the MAC header's type and the frame
\* header's address
Frame(mtype, d) == [mtype |-> mtype, addr |-> DevAddr(d)]
EmptyMap == [k \in {} |-> 0]
\* m[key] = value on a std::map
MapPut(m, key, value) == [k \in DOMAIN m \cup {key} |-> IF k = key THEN value ELSE m[k]]

\* the variables only scenario 8 has
s8only == <<heardFrames, hearingsAtGw, heardAt, firstFlagged, rxCalls, g_nGateways,
            g_gwNodeIdToIdx, g_seenKeys, g_totalRaw, g_totalUnique, g_totalDuplicate,
            g_rawHearingsPerNode, g_uniqueRecvPerNode, g_rawPerGwPerNode,
            g_uniquePerGwPerNode, g_totalRawPerGw, csvOwner>>

S8OnlyIdle ==
    /\ heardFrames = {}
    /\ hearingsAtGw = ZeroPerGw
    /\ heardAt = [d \in Devices |-> ZeroPerGw]
    /\ firstFlagged = [k \in Devices \X (0 .. MaxUplinks - 1) |-> 0]
    /\ rxCalls = 0
    /\ g_nGateways = 1
    /\ g_gwNodeIdToIdx = BuildGatewayMapping(1)
    /\ g_seenKeys = {}
    /\ g_totalRaw = 0
    /\ g_totalUnique = 0
    /\ g_totalDuplicate = 0
    /\ g_rawHearingsPerNode = ZeroPerNode
    /\ g_uniqueRecvPerNode = ZeroPerNode
    /\ g_rawPerGwPerNode = [n \in NodeIds |-> ZeroPerGw]
    /\ g_uniquePerGwPerNode = [n \in NodeIds |-> ZeroPerGw]
    /\ g_totalRawPerGw = ZeroPerGw
    /\ csvOwner = EmptyMap

\* the start of Simulator::Run in a program with the standard timing
RunStart ==
    /\ now = 0
    /\ phase = "run"
    /\ mappingPending = TRUE
    /\ macFCnt = [d \in Devices |-> 0]
    /\ aired = {}
    /\ g_totalSent = 0
    /\ g_totalReceived = 0
    /\ g_sentPacketsPerNode = ZeroPerNode
    /\ g_receivedPacketsPerNode = ZeroPerNode

\* ============================================= scenario 6: near/far cohorts
\* std::log10 of a distance, in thousandths
Log10Milli(d_m) ==
    CASE d_m = 1 -> 0 [] d_m = 100 -> 2000 [] d_m = 450 -> 2653 [] d_m = 500 -> 2699

\* lora::PathLossLogDistance_dB; dB in hundredths, the exponent n in hundredths
PathLossLogDistance_dB(d_m, refLoss_dB, n) ==
    LET d == IF d_m < 1 THEN 1 ELSE d_m
    IN  refLoss_dB + (n * Log10Milli(d)) \div 100

Rssi_dBm_fromDistance(txPower_dBm, d_m, refLoss_dB, n) ==
    txPower_dBm - PathLossLogDistance_dB(d_m, refLoss_dB, n)

\* BuildDeviceMapping: Rssi_dBm_fromDistance(14.0, distance, 3.0, 3.76)
EstTxPower == 1400
EstRefLoss == 300
EstPathExp == 376
\* SetupStandardChannel: SetReference(1, 7.7), SetPathLossExponent(3.76)
ChannelRefLoss == 770
ChannelPathExp == 376
\* static double g_rssiThreshold = -100.0
InitialThreshold == -10000
\* distances the positions may give: at the gateway, the near ring, the far ring
S6Distances == {0, 100, 450, 500}

\* a plausible slip: the lower median
MedianIndexLower(size) == (size - 1) \div 2

\* allEstRssi.begin() + allEstRssi.size() / 2
MedianIndex(size) == size \div 2

\* std::nth_element(begin, begin + k, end); *(begin + k)
NthElement(seq, k) == SortAscending(seq)[k + 1]

\* g_isNearNode[nodeId] as an rvalue: an absent entry reads false ...
IsNearRead(nodeId) == IF nodeId \in DOMAIN g_isNearNode THEN g_isNearNode[nodeId] ELSE FALSE
\* ... and is inserted by the read
IsNearAfterRead(nodeId) ==
    IF nodeId \in DOMAIN g_isNearNode THEN g_isNearNode
    ELSE MapPut(g_isNearNode, nodeId, FALSE)

\* BuildDeviceMapping(gateways, endDevices, nearThreshold) with the one gateway
S6_BuildDeviceMapping ==
    LET dev(n) == CHOOSE d \in Devices : EdNodeIdFirst(d) = n
        est(d) == Rssi_dBm_fromDistance(EstTxPower, edDistance[d], EstRefLoss, EstPathExp)
        allEstRssi == [i \in 1 .. NumDevices |-> est(i - 1)]
        threshold == IF allEstRssi # <<>>
                     THEN NthElement(allEstRssi, MedianIndex(Len(allEstRssi)))
                     ELSE g_rssiThreshold
    IN  /\ g_nodeDistances' =
               [n \in DOMAIN g_nodeDistances \cup EdFirstNodes |->
                   IF n \in EdFirstNodes THEN edDistance[dev(n)] ELSE g_nodeDistances[n]]
        /\ g_estRssiPerNode' = [n \in EdFirstNodes |-> est(dev(n))]
        /\ g_rssiThreshold' = threshold
        /\ g_isNearNode' =
               [n \in DOMAIN g_isNearNode \cup EdFirstNodes |->
                   IF n \in EdFirstNodes THEN est(dev(n)) >= threshold
                   ELSE g_isNearNode[n]]

S6_OnPacketSent(nodeId) ==
    /\ g_sentPacketsPerNode' = Bump(g_sentPacketsPerNode, nodeId)
    /\ g_totalSent' = g_totalSent + 1
    /\ g_isNearNode' = IsNearAfterRead(nodeId)
    /\ IF IsNearRead(nodeId)
       THEN g_nearCohortSent' = g_nearCohortSent + 1 /\ UNCHANGED g_farCohortSent
       ELSE g_farCohortSent' = g_farCohortSent + 1 /\ UNCHANGED g_nearCohortSent

s6rxGlobals == <<g_receivedPacketsPerNode, g_totalReceived, g_isNearNode,
                 g_nearCohortReceived, g_farCohortReceived>>

S6_OnGatewayReceive(packet) ==
    IF packet.mtype = "UNCONFIRMED_DATA_UP" /\ packet.addr \in DOMAIN g_deviceToNodeMap
    THEN LET nodeId == g_deviceToNodeMap[packet.addr]
         IN  /\ g_receivedPacketsPerNode' = Bump(g_receivedPacketsPerNode, nodeId)
             /\ g_totalReceived' = g_totalReceived + 1
             /\ g_isNearNode' = IsNearAfterRead(nodeId)
             /\ IF IsNearRead(nodeId)
                THEN /\ g_nearCohortReceived' = g_nearCohortReceived + 1
                     /\ UNCHANGED g_farCohortReceived
                ELSE /\ g_farCohortReceived' = g_farCohortReceived + 1
                     /\ UNCHANGED g_nearCohortReceived
    ELSE UNCHANGED s6rxGlobals

\* BuildDeviceAddressMap(endDevices), called before the run
BuildDeviceAddressMap ==
    [a \in {DevAddr(d) : d \in Devices} |->
        EdNodeIdFirst(CHOOSE d \in Devices : DevAddr(d) = a)]

\* ExportResults: the capture analysis and the Cohort column of PER_NODE_STATS
S6_ExportResults ==
    /\ csvCapture' =
           [analysis |-> CaptureReport(g_nearCohortSent, g_nearCohortReceived,
                                       g_farCohortSent, g_farCohortReceived),
            cohort |-> [n \in EdFirstNodes |-> IF IsNearRead(n) THEN "NEAR" ELSE "FAR"]]
    /\ g_isNearNode' = [n \in DOMAIN g_isNearNode \cup EdFirstNodes |-> IsNearRead(n)]

\* ================================================== scenario 6: the run
S6Idle ==
    /\ g_nodeDistances = EmptyMap
    /\ g_estRssiPerNode = EmptyMap
    /\ g_rssiThreshold = InitialThreshold
    /\ g_isNearNode = EmptyMap
    /\ g_nearCohortSent = 0
    /\ g_nearCohortReceived = 0
    /\ g_farCohortSent = 0
    /\ g_farCohortReceived = 0
    /\ edDistance = [d \in Devices |-> 0]
    /\ delivered = {}
    /\ countedAs = [n \in NodeIds |-> {}]
    /\ csvCapture = <<>>

\* main has placed the devices and built the address map; Simulator::Run starts
S6Start ==
    /\ RunStart
    /\ g_deviceToNodeMap = BuildDeviceAddressMap
    /\ g_nodeDistances = EmptyMap
    /\ g_estRssiPerNode = EmptyMap
    /\ g_rssiThreshold = InitialThreshold
    /\ g_isNearNode = EmptyMap
    /\ g_nearCohortSent = 0
    /\ g_nearCohortReceived = 0
    /\ g_farCohortSent = 0
    /\ g_farCohortReceived = 0
    /\ edDistance \in [Devices -> S6Distances]
    /\ delivered = {}
    /\ countedAs = [n \in NodeIds |-> {}]
    /\ csvCapture = <<>>

otherThanS6 == <<s8only, keyvars, propvars, s3vars, fnvars, latevars>>

\* the cohort counter a step has moved, if any
CohortCounted ==
    IF g_nearCohortSent' # g_nearCohortSent \/ g_nearCohortReceived' # g_nearCohortReceived
    THEN {"NEAR"}
    ELSE IF g_farCohortSent' # g_farCohortSent \/ g_farCohortReceived' # g_farCohortReceived
    THEN {"FAR"}
    ELSE {}

\* the event SetupStandardTiming scheduled for 1.0 s: BuildDeviceMappingShim
S6RunBuildMapping ==
    /\ phase = "run"
    /\ mappingPending
    /\ now = MappingTick
    /\ S6_BuildDeviceMapping
    /\ mappingPending' = FALSE
    /\ UNCHANGED <<now, phase, macFCnt, aired, g_deviceToNodeMap, g_totalSent,
                   g_totalReceived, g_sentPacketsPerNode, g_receivedPacketsPerNode,
                   g_nearCohortSent, g_nearCohortReceived, g_farCohortSent,
                   g_farCohortReceived, edDistance, delivered, countedAs, csvCapture>>
    /\ UNCHANGED otherThanS6

\* the application of end device d sends a new uplink (SentNewPacket fires)
S6SendUplink(d) ==
    /\ phase = "run"
    /\ AppStartTick <= now
    /\ now < StopTick
    /\ Cardinality(aired) < MaxUplinks
    /\ aired' = aired \cup {<<d, macFCnt[d]>>}
    /\ macFCnt' = Bump(macFCnt, d)
    /\ S6_OnPacketSent(EdNodeIdFirst(d))
    /\ UNCHANGED <<now, phase, mappingPending, g_deviceToNodeMap, g_totalReceived,
                   g_receivedPacketsPerNode, g_nodeDistances, g_estRssiPerNode,
                   g_rssiThreshold, g_nearCohortReceived, g_farCohortReceived,
                   edDistance, delivered, csvCapture>>
    /\ UNCHANGED otherThanS6
    /\ countedAs' = [countedAs EXCEPT ![EdNodeIdFirst(d)] = @ \cup CohortCounted]

\* the gateway MAC receives the uplink f of device d (ReceivedPacket fires)
S6GatewayReceives(d, f) ==
    /\ phase = "run"
    /\ now < StopTick
    /\ <<d, f>> \in aired \ delivered
    /\ S6_OnGatewayReceive(Frame("UNCONFIRMED_DATA_UP", d))
    /\ delivered' = delivered \cup {<<d, f>>}
    /\ UNCHANGED <<now, phase, mappingPending, macFCnt, aired, g_deviceToNodeMap,
                   g_totalSent, g_sentPacketsPerNode, g_nodeDistances, g_estRssiPerNode,
                   g_rssiThreshold, g_nearCohortSent, g_farCohortSent, edDistance,
                   csvCapture>>
    /\ UNCHANGED otherThanS6
    /\ countedAs' = [countedAs EXCEPT ![EdNodeIdFirst(d)] = @ \cup CohortCounted]

\* the stop event fires, Simulator::Run returns and main exports
S6Export ==
    /\ phase = "run"
    /\ ~(mappingPending /\ now = MappingTick)
    /\ \A t \in LaterInstants : t = StopTick
    /\ now' = StopTick
    /\ phase' = "exported"
    /\ S6_ExportResults
    /\ UNCHANGED <<mappingPending, macFCnt, aired, g_deviceToNodeMap, g_totalSent,
                   g_totalReceived, g_sentPacketsPerNode, g_receivedPacketsPerNode,
                   g_nodeDistances, g_estRssiPerNode, g_rssiThreshold, g_nearCohortSent,
                   g_nearCohortReceived, g_farCohortSent, g_farCohortReceived,
                   edDistance, delivered, countedAs>>
    /\ UNCHANGED otherThanS6

S6Next ==
    \/ Tick
    \/ S6RunBuildMapping
    \/ \E d \in Devices : S6SendUplink(d)
    \/ \E d \in Devices, f \in 0 .. MaxUplinks - 1 : S6GatewayReceives(d, f)
    \/ S6Export

\* ======================================= scenario 3: interference losses
\* lora::CalculateAirTime(sf) with the defaults of ToA_ms
CalculateAirTime(sf) == ToA_ms(sf, 125000, 1, 51, TRUE, TRUE)

S3_OnPacketSent(nodeId) ==
    LET airTime == CalculateAirTime(g_currentSpreadingFactor).val
    IN  /\ g_sentPacketsPerNode' = Bump(g_sentPacketsPerNode, nodeId)
        /\ g_totalSent' = g_totalSent + 1
        /\ g_totalAirTimePerNode' =
               [g_totalAirTimePerNode EXCEPT ![nodeId] = @ + airTime]
        /\ g_totalAirTime' = g_totalAirTime + airTime

UplinkDataTypes == {"UNCONFIRMED_DATA_UP", "CONFIRMED_DATA_UP"}

\* a plausible slip: the gateway's id is used where the sender's belongs
RxInterfChargeGateway(gwId, p) ==
    /\ g_lostInterf' = g_lostInterf + 1
    /\ g_interfPerGw' = Bump(g_interfPerGw, gwId)
    /\ IF p.mtype \in UplinkDataTypes /\ p.addr \in DOMAIN g_deviceToNodeMap
       THEN /\ g_collisionsPerNode' = Bump(g_collisionsPerNode, gwId)
            /\ g_interferencePerNode' = Bump(g_interferencePerNode, gwId)
       ELSE UNCHANGED <<g_collisionsPerNode, g_interferencePerNode>>

\* a plausible slip: the sender is charged whether or not the frame is an uplink
RxInterfAnyType(gwId, p) ==
    /\ g_lostInterf' = g_lostInterf + 1
    /\ g_interfPerGw' = Bump(g_interfPerGw, gwId)
    /\ IF p.addr \in DOMAIN g_deviceToNodeMap
       THEN LET nodeId == g_deviceToNodeMap[p.addr]
            IN  /\ g_collisionsPerNode' = Bump(g_collisionsPerNode, nodeId)
                /\ g_interferencePerNode' = Bump(g_interferencePerNode, nodeId)
       ELSE UNCHANGED <<g_collisionsPerNode, g_interferencePerNode>>

RxInterfPerGw(gwId, p) ==
    /\ g_lostInterf' = g_lostInterf + 1
    /\ g_interfPerGw' = Bump(g_interfPerGw, gwId)
    /\ IF p.mtype \in UplinkDataTypes /\ p.addr \in DOMAIN g_deviceToNodeMap
       THEN LET nodeId == g_deviceToNodeMap[p.addr]
            IN  /\ g_collisionsPerNode' = Bump(g_collisionsPerNode, nodeId)
                /\ g_interferencePerNode' = Bump(g_interferencePerNode, nodeId)
       ELSE UNCHANGED <<g_collisionsPerNode, g_interferencePerNode>>

\* BuildDeviceMapping of scenario 3: BuildStandardDeviceMapping, then the airtime
\* of every end device is zeroed (g_rssiPerNode and g_snrPerNode, which only the
\* reception statistics read, are not part of this model)
S3_BuildDeviceMapping ==
    /\ g_deviceToNodeMap' =
           [a \in DOMAIN g_deviceToNodeMap \cup {DevAddr(d) : d \in Devices} |->
               IF \E d \in Devices : DevAddr(d) = a
               THEN EdNodeIdFirst(CHOOSE d \in Devices : DevAddr(d) = a)
               ELSE g_deviceToNodeMap[a]]
    /\ g_sentPacketsPerNode' =
           [n \in NodeIds |-> IF n \in EdFirstNodes THEN 0 ELSE g_sentPacketsPerNode[n]]
    /\ g_receivedPacketsPerNode' =
           [n \in NodeIds |-> IF n \in EdFirstNodes THEN 0
                              ELSE g_receivedPacketsPerNode[n]]
    /\ g_totalAirTimePerNode' =
           [n \in NodeIds |-> IF n \in EdFirstNodes THEN 0 ELSE g_totalAirTimePerNode[n]]

S3Idle ==
    /\ g_lostInterf = 0
    /\ g_interfPerGw = ZeroPerNode
    /\ g_collisionsPerNode = ZeroPerNode
    /\ g_interferencePerNode = ZeroPerNode
    /\ g_currentSpreadingFactor = 10
    /\ g_totalAirTimePerNode = ZeroPerNode
    /\ g_totalAirTime = 0
    /\ lastLoss = <<>>

\* main has checked the spreading factor; Simulator::Run starts
S3Start ==
    /\ RunStart
    /\ g_deviceToNodeMap = EmptyMap
    /\ g_lostInterf = 0
    /\ g_interfPerGw = ZeroPerNode
    /\ g_collisionsPerNode = ZeroPerNode
    /\ g_interferencePerNode = ZeroPerNode
    /\ g_currentSpreadingFactor \in {7, 10, 12}
    /\ g_totalAirTimePerNode = ZeroPerNode
    /\ g_totalAirTime = 0
    /\ lastLoss = <<>>

otherThanS3 == <<s8only, keyvars, propvars, s6vars, fnvars, latevars>>

S3RunBuildMapping ==
    /\ phase = "run"
    /\ mappingPending
    /\ now = MappingTick
    /\ S3_BuildDeviceMapping
    /\ mappingPending' = FALSE
    /\ UNCHANGED <<now, phase, macFCnt, aired, g_totalSent, g_totalReceived,
                   g_lostInterf, g_interfPerGw, g_collisionsPerNode,
                   g_interferencePerNode, g_currentSpreadingFactor, g_totalAirTime,
                   lastLoss>>
    /\ UNCHANGED otherThanS3

S3SendUplink(d) ==
    /\ phase = "run"
    /\ AppStartTick <= now
    /\ now < StopTick
    /\ Cardinality(aired) < MaxUplinks
    /\ aired' = aired \cup {<<d, macFCnt[d]>>}
    /\ macFCnt' = Bump(macFCnt, d)
    /\ S3_OnPacketSent(EdNodeIdFirst(d))
    /\ UNCHANGED <<now, phase, mappingPending, g_deviceToNodeMap, g_totalReceived,
                   g_receivedPacketsPerNode, g_lostInterf, g_interfPerGw,
                   g_collisionsPerNode, g_interferencePerNode,
                   g_currentSpreadingFactor, lastLoss>>
    /\ UNCHANGED otherThanS3

\* a device address no end device of the run has
ForeignDevice == NumDevices

\* the gateway PHY loses to interference a frame it was receiving
\* (LostPacketBecauseInterference fires): an uplink that device d has sent, a
\* frame of another type with d's address, or a frame of a foreign device
S3InterferenceLoss(d, mtype) ==
    /\ phase = "run"
    /\ now < StopTick
    /\ d \in Devices => \E f \in 0 .. MaxUplinks - 1 : <<d, f>> \in aired
    /\ d = ForeignDevice => aired # {}
    /\ g_lostInterf < MaxHearings
    /\ RxInterfPerGw(GwNodeIdAfter(0), Frame(mtype, d))
    /\ lastLoss' = [packet |-> Frame(mtype, d),
                    sender |-> IF d \in Devices THEN {EdNodeIdFirst(d)} ELSE {},
                    gwId |-> GwNodeIdAfter(0)]
    /\ UNCHANGED <<now, phase, mappingPending, macFCnt, aired, g_deviceToNodeMap,
                   g_totalSent, g_totalReceived, g_sentPacketsPerNode,
                   g_receivedPacketsPerNode, g_currentSpreadingFactor,
                   g_totalAirTimePerNode, g_totalAirTime>>
    /\ UNCHANGED otherThanS3

S3Next ==
    \/ Tick
    \/ S3RunBuildMapping
    \/ \E d \in Devices : S3SendUplink(d)
    \/ \E d \in Devices \cup {ForeignDevice},
          mtype \in UplinkDataTypes \cup {"UNCONFIRMED_DATA_DOWN"} :
          S3InterferenceLoss(d, mtype)

\* ============================================ scenarios 7 and 3: running means
\* A mean of dBm samples is held as an exact fraction <<numerator, denominator>>
\* in lowest terms; the rounding of the double arithmetic is not modelled.
RECURSIVE Gcd(_, _)
Gcd(a, b) == IF b = 0 THEN a ELSE Gcd(b, a % b)
Abs(x) == IF x < 0 THEN -x ELSE x
Frac(num, den) ==
    LET g == Gcd(Abs(num), den)
    IN  IF num = 0 THEN <<0, 1>> ELSE <<num \div g, den \div g>>
\* (mean * weight + value) / divisor
WeightedIn(mean, weight, value, divisor) ==
    Frac(mean[1] * weight + value * mean[2], mean[2] * divisor)

\* a plausible slip: the old mean is weighted with the new count
S7_RunningAverageNewCount(avg, n, rssiDbm) ==
    IF n = 0 THEN Frac(rssiDbm, 1) ELSE WeightedIn(avg, n + 1, rssiDbm, n + 1)

\* scenario 7, OnGatewayReceive: n is g_rssiSampleCount before the sample
S7_RunningAverage(avg, n, rssiDbm) ==
    IF n = 0 THEN Frac(rssiDbm, 1) ELSE WeightedIn(avg, n, rssiDbm, n + 1)

\* scenario 3, OnGatewayReceive: count is g_receivedPacketsPerNode after the
\* packet has been counted
S3_RunningAverage(avg, count, rssiDbm) ==
    IF count = 1 THEN Frac(rssiDbm, 1) ELSE WeightedIn(avg, count - 1, rssiDbm, count)

\* estimated RSSI of received packets, in dBm
RssiSamples == {-120, -90, -65}

\* one node after the device mapping: nothing received, the means zeroed
MeanInit ==
    /\ fnArgs = <<>>
    /\ fnResult = [g_avgRssiPerNode |-> <<0, 1>>, g_rssiSampleCount |-> 0,
                   g_rssiPerNode |-> <<0, 1>>, g_receivedPacketsPerNode |-> 0]

\* the gateway receives a packet of the node; both handlers' updates are applied
MeanReceive ==
    /\ Len(fnArgs) < MaxSamples
    /\ \E rssiDbm \in RssiSamples :
          LET n == fnResult.g_rssiSampleCount
              count == fnResult.g_receivedPacketsPerNode + 1
          IN  /\ fnArgs' = Append(fnArgs, rssiDbm)
              /\ fnResult' =
                    [g_avgRssiPerNode |->
                         S7_RunningAverage(fnResult.g_avgRssiPerNode, n, rssiDbm),
                     g_rssiSampleCount |-> n + 1,
                     g_rssiPerNode |->
                         S3_RunningAverage(fnResult.g_rssiPerNode, count, rssiDbm),
                     g_receivedPacketsPerNode |-> count]
    /\ UNCHANGED <<s8vars, keyvars, propvars, s6vars, s3vars, latevars>>

\* ===================================== scenario 4: retransmission accounting
\* a data frame as OnGatewayReceive decodes it: type, address, frame counter
S4Frame(mtype, d, fcnt) == [mtype |-> mtype, addr |-> DevAddr(d), fcnt |-> fcnt]

\* a plausible slip: the total is counted for confirmed traffic only
S4_OnPacketSentTotalIfConfirmed(nodeId) ==
    /\ g_sentPacketsPerNode' = Bump(g_sentPacketsPerNode, nodeId)
    /\ IF g_isConfirmedMode
       THEN /\ g_totalSent' = g_totalSent + 1
            /\ g_confirmedPacketsSent' = g_confirmedPacketsSent + 1
       ELSE UNCHANGED <<g_totalSent, g_confirmedPacketsSent>>

S4_OnPacketSent(nodeId) ==
    /\ g_sentPacketsPerNode' = Bump(g_sentPacketsPerNode, nodeId)
    /\ g_totalSent' = g_totalSent + 1
    /\ IF g_isConfirmedMode
       THEN g_confirmedPacketsSent' = g_confirmedPacketsSent + 1
       ELSE UNCHANGED g_confirmedPacketsSent

s4rxGlobals == <<g_receivedPacketsPerNode, g_totalReceived, g_confirmedPacketsReceived,
                 g_retransmissionsPerNode, g_totalRetransmissions,
                 g_frameCountersPerNode, g_lastFrameCountPerNode>>

\* a plausible slip: the frame counter is compared with the last one received
S4_OnGatewayReceiveLastOnly(packet) ==
    IF packet.mtype \in UplinkDataTypes /\ packet.addr \in DOMAIN g_deviceToNodeMap
    THEN LET nodeId == g_deviceToNodeMap[packet.addr]
             fcnt == packet.fcnt
         IN  /\ g_receivedPacketsPerNode' = Bump(g_receivedPacketsPerNode, nodeId)
             /\ g_totalReceived' = g_totalReceived + 1
             /\ IF packet.mtype = "CONFIRMED_DATA_UP"
                THEN g_confirmedPacketsReceived' = g_confirmedPacketsReceived + 1
                ELSE UNCHANGED g_confirmedPacketsReceived
             /\ IF g_lastFrameCountPerNode[nodeId] = fcnt
                THEN /\ g_retransmissionsPerNode' = Bump(g_retransmissionsPerNode, nodeId)
                     /\ g_totalRetransmissions' = g_totalRetransmissions + 1
                     /\ UNCHANGED g_frameCountersPerNode
                ELSE /\ g_frameCountersPerNode' =
                            [g_frameCountersPerNode EXCEPT ![nodeId] = @ \cup {fcnt}]
                     /\ UNCHANGED <<g_retransmissionsPerNode, g_totalRetransmissions>>
             /\ g_lastFrameCountPerNode' =
                    [g_lastFrameCountPerNode EXCEPT ![nodeId] = fcnt]
    ELSE UNCHANGED s4rxGlobals

S4_OnGatewayReceive(packet) ==
    IF packet.mtype \in UplinkDataTypes /\ packet.addr \in DOMAIN g_deviceToNodeMap
    THEN LET nodeId == g_deviceToNodeMap[packet.addr]
             fcnt == packet.fcnt
         IN  /\ g_receivedPacketsPerNode' = Bump(g_receivedPacketsPerNode, nodeId)
             /\ g_totalReceived' = g_totalReceived + 1
             /\ IF packet.mtype = "CONFIRMED_DATA_UP"
                THEN g_confirmedPacketsReceived' = g_confirmedPacketsReceived + 1
                ELSE UNCHANGED g_confirmedPacketsReceived
             /\ IF fcnt \in g_frameCountersPerNode[nodeId]
                THEN /\ g_retransmissionsPerNode' = Bump(g_retransmissionsPerNode, nodeId)
                     /\ g_totalRetransmissions' = g_totalRetransmissions + 1
                     /\ UNCHANGED g_frameCountersPerNode
                ELSE /\ g_frameCountersPerNode' =
                            [g_frameCountersPerNode EXCEPT ![nodeId] = @ \cup {fcnt}]
                     /\ UNCHANGED <<g_retransmissionsPerNode, g_totalRetransmissions>>
             /\ g_lastFrameCountPerNode' =
                    [g_lastFrameCountPerNode EXCEPT ![nodeId] = fcnt]
    ELSE UNCHANGED s4rxGlobals

\* BuildDeviceMapping of scenario 4: BuildStandardDeviceMapping, then the
\* retransmission state of every end device is reset
S4_BuildDeviceMapping ==
    /\ g_deviceToNodeMap' =
           [a \in DOMAIN g_deviceToNodeMap \cup {DevAddr(d) : d \in Devices} |->
               IF \E d \in Devices : DevAddr(d) = a
               THEN EdNodeIdFirst(CHOOSE d \in Devices : DevAddr(d) = a)
               ELSE g_deviceToNodeMap[a]]
    /\ g_sentPacketsPerNode' =
           [n \in NodeIds |-> IF n \in EdFirstNodes THEN 0 ELSE g_sentPacketsPerNode[n]]
    /\ g_receivedPacketsPerNode' =
           [n \in NodeIds |-> IF n \in EdFirstNodes THEN 0
                              ELSE g_receivedPacketsPerNode[n]]
    /\ g_retransmissionsPerNode' =
           [n \in NodeIds |-> IF n \in EdFirstNodes THEN 0
                              ELSE g_retransmissionsPerNode[n]]
    /\ g_lastFrameCountPerNode' =
           [n \in NodeIds |-> IF n \in EdFirstNodes THEN 0
                              ELSE g_lastFrameCountPerNode[n]]
    /\ g_frameCountersPerNode' =
           [n \in NodeIds |-> IF n \in EdFirstNodes THEN {}
                              ELSE g_frameCountersPerNode[n]]

S4Idle ==
    /\ g_retransmissionsPerNode = ZeroPerNode
    /\ g_frameCountersPerNode = [n \in NodeIds |-> {}]
    /\ g_lastFrameCountPerNode = ZeroPerNode
    /\ g_totalRetransmissions = 0
    /\ g_confirmedPacketsSent = 0
    /\ g_confirmedPacketsReceived = 0
    /\ g_isConfirmedMode = FALSE
    /\ receptions = [k \in Devices \X (0 .. MaxUplinks - 1) |-> 0]

\* main has parsed confirmedMessages; Simulator::Run starts
S4Start ==
    /\ RunStart
    /\ g_deviceToNodeMap = EmptyMap
    /\ g_retransmissionsPerNode = ZeroPerNode
    /\ g_frameCountersPerNode = [n \in NodeIds |-> {}]
    /\ g_lastFrameCountPerNode = ZeroPerNode
    /\ g_totalRetransmissions = 0
    /\ g_confirmedPacketsSent = 0
    /\ g_confirmedPacketsReceived = 0
    /\ g_isConfirmedMode \in BOOLEAN
    /\ receptions = [k \in Devices \X (0 .. MaxUplinks - 1) |-> 0]

otherThanS4 == <<s8only, keyvars, propvars, s6vars, s3vars, fnvars, ssvars>>

S4RunBuildMapping ==
    /\ phase = "run"
    /\ mappingPending
    /\ now = MappingTick
    /\ S4_BuildDeviceMapping
    /\ mappingPending' = FALSE
    /\ UNCHANGED <<now, phase, macFCnt, aired, g_totalSent, g_totalReceived,
                   g_totalRetransmissions, g_confirmedPacketsSent,
                   g_confirmedPacketsReceived, g_isConfirmedMode, receptions>>
    /\ UNCHANGED otherThanS4

\* the application of end device d sends a new uplink (SentNewPacket fires)
S4SendUplink(d) ==
    /\ phase = "run"
    /\ AppStartTick <= now
    /\ now < StopTick
    /\ Cardinality(aired) < MaxUplinks
    /\ aired' = aired \cup {<<d, macFCnt[d]>>}
    /\ macFCnt' = Bump(macFCnt, d)
    /\ S4_OnPacketSent(EdNodeIdFirst(d))
    /\ UNCHANGED <<now, phase, mappingPending, g_deviceToNodeMap, s4rxGlobals,
                   g_isConfirmedMode, receptions>>
    /\ UNCHANGED otherThanS4

\* what a reception leaves alone
s4rxRest == <<now, phase, mappingPending, macFCnt, aired, g_deviceToNodeMap,
              g_totalSent, g_sentPacketsPerNode, g_confirmedPacketsSent,
              g_isConfirmedMode>>

\* the gateway MAC receives the uplink f of device d (ReceivedPacket fires); the
\* one gateway receives a transmission once
S4GatewayReceives(d, f, mtype) ==
    /\ phase = "run"
    /\ now < StopTick
    /\ <<d, f>> \in aired
    /\ receptions[<<d, f>>] = 0
    /\ S4_OnGatewayReceive(S4Frame(mtype, d, f))
    /\ receptions' = [receptions EXCEPT ![<<d, f>>] = @ + 1]
    /\ UNCHANGED s4rxRest
    /\ UNCHANGED otherThanS4

\* the gateway MAC receives a retransmission of an uplink it has received before
S4RetransmissionReceived(d, f, mtype) ==
    /\ phase = "run"
    /\ now < StopTick
    /\ <<d, f>> \in aired
    /\ receptions[<<d, f>>] >= 1
    /\ receptions[<<d, f>>] < MaxHearings
    /\ g_totalReceived < MaxHearings
    /\ S4_OnGatewayReceive(S4Frame(mtype, d, f))
    /\ receptions' = [receptions EXCEPT ![<<d, f>>] = @ + 1]
    /\ UNCHANGED s4rxRest
    /\ UNCHANGED otherThanS4

\* the stop event fires and Simulator::Run returns; main validates and exports
S4RunEnds ==
    /\ phase = "run"
    /\ ~(mappingPending /\ now = MappingTick)
    /\ \A t \in LaterInstants : t = StopTick
    /\ now' = StopTick
    /\ phase' = "stopped"
    /\ UNCHANGED <<mappingPending, macFCnt, aired, g_deviceToNodeMap, g_totalSent,
                   g_sentPacketsPerNode, s4rxGlobals, g_confirmedPacketsSent,
                   g_isConfirmedMode, receptions>>
    /\ UNCHANGED otherThanS4

\* a run of scenario 4: the uplinks are new transmissions or retransmissions
S4Next ==
    \/ Tick
    \/ S4RunBuildMapping
    \/ \E d \in Devices : S4SendUplink(d)
    \/ \E d \in Devices, f \in 0 .. MaxUplinks - 1, mtype \in UplinkDataTypes :
          S4GatewayReceives(d, f, mtype)
    \/ \E d \in Devices, f \in 0 .. MaxUplinks - 1, mtype \in UplinkDataTypes :
          S4RetransmissionReceived(d, f, mtype)
    \/ S4RunEnds

\* ============================================ scenario 0: SimpleSender
\* nPkts handed to Configure (0: send until the application is stopped)
NPktsValues == 0 .. MaxPkts

\* DoSend: m_dev->Send and ++m_sent (m_sent wraps at 2^32 only when m_nPkts = 0,
\* where it is not compared)
SS_Send ==
    /\ devSent' = devSent + 1
    /\ m_sent' = m_sent + 1

\* a plausible slip: the next send is scheduled while m_sent <= m_nPkts
SS_DoSendOffByOne ==
    IF m_nPkts > 0 /\ m_sent >= m_nPkts
    THEN /\ m_event' = "expired"
         /\ UNCHANGED <<m_sent, devSent>>
    ELSE /\ SS_Send
         /\ m_event' = IF m_nPkts = 0 \/ m_sent' <= m_nPkts THEN "pending" ELSE "expired"

\* DoSend, run by the event m_event names; the event has expired when it runs
SS_DoSend ==
    IF m_nPkts > 0 /\ m_sent >= m_nPkts
    THEN /\ m_event' = "expired"
         /\ UNCHANGED <<m_sent, devSent>>
    ELSE /\ SS_Send
         /\ m_event' = IF m_nPkts = 0 \/ m_sent' < m_nPkts THEN "pending" ELSE "expired"

\* a plausible slip: StopApplication leaves the pending event alone
SS_StopApplicationNoCancel == UNCHANGED m_event

SS_StopApplication ==
    IF m_event = "pending" THEN m_event' = "cancelled" ELSE UNCHANGED m_event

SsIdle ==
    /\ m_nPkts = 0
    /\ m_sent = 0
    /\ m_event = "none"
    /\ m_expIat = FALSE
    /\ appState = "idle"
    /\ devSent = 0

\* main has created the application and called Configure
SsConfigured ==
    /\ m_nPkts \in NPktsValues
    /\ m_sent = 0
    /\ m_event = "none"
    /\ m_expIat \in BOOLEAN
    /\ appState = "configured"
    /\ devSent = 0

otherThanSs == <<s8vars, keyvars, propvars, s6vars, s3vars, fnvars, s4vars>>

\* the start time of the application: StartApplication schedules the first DoSend
SsStartApplication ==
    /\ appState = "configured"
    /\ appState' = "started"
    /\ m_event' = "pending"
    /\ UNCHANGED <<m_nPkts, m_sent, m_expIat, devSent>>
    /\ UNCHANGED otherThanSs

\* the simulator reaches the pending event and runs DoSend
SsDoSendFires ==
    /\ m_event = "pending"
    /\ devSent < MaxSends
    /\ SS_DoSend
    /\ UNCHANGED <<m_nPkts, m_expIat, appState>>
    /\ UNCHANGED otherThanSs

\* the stop time of the application
SsStopApplication ==
    /\ appState = "started"
    /\ appState' = "stopped"
    /\ SS_StopApplication
    /\ UNCHANGED <<m_nPkts, m_sent, m_expIat, devSent>>
    /\ UNCHANGED otherThanSs

SsNext ==
    \/ SsStartApplication
    \/ SsDoSendFires
    \/ SsStopApplication

\* the subsystems added last, at rest
LateIdle == S4Idle /\ SsIdle

\* ============================================ the exported count of drops
\* a count as the uint32_t that holds it
U32(n) == <<n \div LimbMod, n % LimbMod>>

\* a - b on uint32_t: modulo 2^32
Sub32(a, b) ==
    LET borrow == IF a[2] < b[2] THEN 1 ELSE 0
    IN  <<(a[1] - b[1] - borrow) % LimbMod, (a[2] - b[2]) % LimbMod>>

\* a <= b on uint32_t
LessEq32(a, b) == a[1] < b[1] \/ (a[1] = b[1] /\ a[2] <= b[2])

\* scenario 3: (g_totalSent >= g_totalReceived) ? (g_totalSent - g_totalReceived) : 0u
S3_PacketsDropped(totalSent, totalReceived) ==
    IF LessEq32(totalReceived, totalSent) THEN Sub32(totalSent, totalReceived) ELSE U32(0)

\* scenario 5: uint32_t packetsDropped = g_totalSent - g_totalReceived
S5_PacketsDropped(totalSent, totalReceived) == Sub32(totalSent, totalReceived)

\* scenario 6: uint32_t totalDrops = g_totalSent - g_totalReceived
S6_TotalDrops(totalSent, totalReceived) == Sub32(totalSent, totalReceived)

\* comparison-scenarios: TotalPacketsLost, g_totalPacketsSent - g_totalPacketsReceived
TotalPacketsLost(totalPacketsSent, totalPacketsReceived) ==
    Sub32(totalPacketsSent, totalPacketsReceived)

\* DropRate_Percent of a count of drops that fits one limb; a count above that is
\* left as it is, its rate being far above any percentage
DropRateExported(drops, totalSent) ==
    IF drops[1] = 0 THEN {DropRatePercent(drops[2], totalSent)} ELSE {}

DropInit ==
    /\ fnArgs \in [g_totalSent : CountSamples, g_totalReceived : CountSamples]
    /\ fnResult = <<>>

\* ExportResults of every scenario computes its count of drops from the totals
\* (comparison-scenarios exports the count and no rate)
DropExport ==
    /\ fnResult = <<>>
    /\ LET sent == U32(fnArgs.g_totalSent)
           received == U32(fnArgs.g_totalReceived)
           row(drops) == [dropped |-> drops,
                          rate |-> DropRateExported(drops, fnArgs.g_totalSent)]
       IN  fnResult' = [scenario3 |-> row(S3_PacketsDropped(sent, received)),
                        scenario5 |-> row(S5_PacketsDropped(sent, received)),
                        scenario6 |-> row(S6_TotalDrops(sent, received)),
                        comparison |-> [dropped |-> TotalPacketsLost(sent, received),
                                        rate |-> {}]]
    /\ UNCHANGED fnArgs
    /\ UNCHANGED <<s8vars, keyvars, propvars, s6vars, s3vars, latevars>>

\* ===================================== scenario 3: the channel utilisation
\* f / k and f * k for a fraction f in lowest terms and an integer k > 0
FracDiv(f, k) ==
    IF f[1] = 0 THEN <<0, 1>>
    ELSE LET g == Gcd(Abs(f[1]), k) IN <<f[1] \div g, f[2] * (k \div g)>>
FracTimes(f, k) ==
    LET g == Gcd(k, f[2]) IN IF f[1] = 0 THEN <<0, 1>> ELSE <<f[1] * (k \div g), f[2] \div g>>

\* an airtime of the model (quarters of a microsecond) as the double holding it,
\* in milliseconds
Milliseconds(quarterMicros) == Frac(quarterMicros, 4000)

OfferedLoadErlangs(total_airtime_ms, sim_seconds, channels) ==
    IF sim_seconds <= 0 \/ channels <= 0 THEN <<0, 1>>
    ELSE FracDiv(FracDiv(total_airtime_ms, 1000), sim_seconds * channels)

ChannelUtilizationPercent(offered_load_erlangs) == FracTimes(offered_load_erlangs, 100)

\* main's simulationTime, in minutes
SimulationMinutes == {1, 5}

\* ExportResults: TotalAirTime_ms and ChannelUtilization_Percent of the CSV
S3_ExportResults(simulationTime) ==
    LET simSeconds == simulationTime * 60
        offered == OfferedLoadErlangs(FracDiv(Milliseconds(g_totalAirTime), 1000),
                                      simSeconds, 1)
    IN  /\ fnArgs' = [simulationTime |-> simulationTime]
        /\ fnResult' = [TotalAirTime_ms |-> Milliseconds(g_totalAirTime),
                        ChannelUtilization_Percent |-> ChannelUtilizationPercent(offered)]

\* the stop event fires, Simulator::Run returns and main exports the results
S3Export ==
    /\ phase = "run"
    /\ ~(mappingPending /\ now = MappingTick)
    /\ \A t \in LaterInstants : t = StopTick
    /\ now' = StopTick
    /\ phase' = "exported"
    /\ \E simulationTime \in SimulationMinutes : S3_ExportResults(simulationTime)
    /\ UNCHANGED <<mappingPending, macFCnt, aired, g_deviceToNodeMap, g_totalSent,
                   g_totalReceived, g_sentPacketsPerNode, g_receivedPacketsPerNode>>
    /\ UNCHANGED <<s8only, keyvars, propvars, s6vars, s3vars, latevars>>

\* a run of scenario 3 up to its export
S3RunNext ==
    \/ S3Next
    \/ S3Export

\* ========================================================= specifications
Init == S8Init /\ KeyIdle /\ PropIdle /\ S6Idle /\ S3Idle /\ FnIdle /\ LateIdle
KeySpecInit == S8Idle /\ KeyInit /\ PropIdle /\ S6Idle /\ S3Idle /\ FnIdle /\ LateIdle
PropSpecInit == S8Idle /\ KeyIdle /\ PropIdle /\ S6Idle /\ S3Idle /\ FnIdle /\ LateIdle
\* scenario 8, from Simulator::Run to the export
Spec == Init /\ [][S8Next]_vars
\* MakePacketKey applied to sampled 32-bit arguments
KeySpec == KeySpecInit /\ [][PackKeys]_vars
\* a DetailedPropagationLossModel under any calls
PropSpec == PropSpecInit /\ [][PropNext]_vars
S6SpecInit == S6Start /\ S8OnlyIdle /\ KeyIdle /\ PropIdle /\ S3Idle /\ FnIdle /\ LateIdle
S3SpecInit == S3Start /\ S8OnlyIdle /\ KeyIdle /\ PropIdle /\ S6Idle /\ FnIdle /\ LateIdle
RateSpecInit == S8Idle /\ KeyIdle /\ PropIdle /\ S6Idle /\ S3Idle /\ RateInit /\ LateIdle
CaptureSpecInit == S8Idle /\ KeyIdle /\ PropIdle /\ S6Idle /\ S3Idle /\ CaptureInit /\ LateIdle
PercentileSpecInit ==
    S8Idle /\ KeyIdle /\ PropIdle /\ S6Idle /\ S3Idle /\ PercentileInit /\ LateIdle
ToASpecInit == S8Idle /\ KeyIdle /\ PropIdle /\ S6Idle /\ S3Idle /\ ToAInit /\ LateIdle
\* scenario 6, from Simulator::Run to the export
S6Spec == S6SpecInit /\ [][S6Next]_vars
\* scenario 3, from Simulator::Run on
S3Spec == S3SpecInit /\ [][S3Next]_vars
\* the rate functions of lora_utils.h applied to sampled counts
RateSpec == RateSpecInit /\ [][RateCall]_vars
\* the capture-effect reports of scenario 6 from sampled cohort counters
CaptureSpec == CaptureSpecInit /\ [][CaptureCall]_vars
\* CalculatePercentile applied to sampled lists and percentiles
PercentileSpec == PercentileSpecInit /\ [][PercentileCall]_vars
\* the two time-on-air functions applied to sampled arguments
ToASpec == ToASpecInit /\ [][ToACall]_vars

MeanSpecInit == S8Idle /\ KeyIdle /\ PropIdle /\ S6Idle /\ S3Idle /\ MeanInit /\ LateIdle
\* the running means of scenarios 7 and 3 over sampled sequences of RSSI values
MeanSpec == MeanSpecInit /\ [][MeanReceive]_vars

S4SpecInit ==
    S4Start /\ S8OnlyIdle /\ KeyIdle /\ PropIdle /\ S6Idle /\ S3Idle /\ FnIdle /\ SsIdle
\* scenario 4, from Simulator::Run to its end
S4Spec == S4SpecInit /\ [][S4Next]_vars

SsSpecInit ==
    S8Idle /\ KeyIdle /\ PropIdle /\ S6Idle /\ S3Idle /\ FnIdle /\ S4Idle /\ SsConfigured
\* one SimpleSender, from Configure to the end of the run
SsSpec == SsSpecInit /\ [][SsNext]_vars

DropSpecInit == S8Idle /\ KeyIdle /\ PropIdle /\ S6Idle /\ S3Idle /\ DropInit /\ LateIdle
\* the counts of drops the scenarios export, for the totals drawn
DropSpec == DropSpecInit /\ [][DropExport]_vars

\* scenario 3, from Simulator::Run to the exported CSV
S3ExportSpec == S3SpecInit /\ [][S3RunNext]_vars

\* ================================================================= claims
Frames == Devices \X (0 .. MaxUplinks - 1)
SumPerNode(f) == SumUpTo(f, MaxGateways + NumDevices - 1)

\* C1: after any sequence of gateway receptions, every hearing counted as unique or
\* as duplicate is also counted as raw: totalUnique + totalDuplicate = totalRaw,
\* and totalUnique <= totalRaw.
C1_DedupTotals ==
    /\ g_totalUnique + g_totalDuplicate = g_totalRaw
    /\ g_totalUnique <= g_totalRaw

C1_Witness ==
    /\ g_totalUnique >= 2
    /\ g_totalDuplicate >= 2
    /\ rxCalls = g_totalRaw

\* C2: the per-node unique counts add up to the global unique count.
C2_UniqueSum == SumPerNode(g_uniqueRecvPerNode) = g_totalUnique

C2_Witness ==
    /\ g_totalUnique >= 2
    /\ g_totalDuplicate >= 1
    /\ \E n \in EdNodes, m \in EdNodes :
          n # m /\ g_uniqueRecvPerNode[n] >= 1 /\ g_uniqueRecvPerNode[m] >= 1

\* exactly one entry of the per-node (per-gateway) counter f has moved, by one
OneMore(f, g) == \E n \in DOMAIN f : g = [f EXCEPT ![n] = @ + 1]
OneMoreAtGw(f, g) == \E n \in EdNodes, i \in GwIdxs : g = [f EXCEPT ![n][i] = @ + 1]

\* every counter a hearing affects has moved, the unique ones or the duplicate one
HearingFullyApplied ==
    LET first == g_totalUnique' = g_totalUnique + 1
    IN  /\ g_totalRaw' = g_totalRaw + 1
        /\ OneMore(g_rawHearingsPerNode, g_rawHearingsPerNode')
        /\ OneMoreAtGw(g_rawPerGwPerNode, g_rawPerGwPerNode')
        /\ OneMore(g_totalRawPerGw, g_totalRawPerGw')
        /\ g_totalUnique' + g_totalDuplicate' = g_totalUnique + g_totalDuplicate + 1
        /\ first => /\ g_totalDuplicate' = g_totalDuplicate
                    /\ Cardinality(g_seenKeys') = Cardinality(g_seenKeys) + 1
                    /\ OneMore(g_uniqueRecvPerNode, g_uniqueRecvPerNode')
                    /\ OneMoreAtGw(g_uniquePerGwPerNode, g_uniquePerGwPerNode')
        /\ ~first => /\ g_totalDuplicate' = g_totalDuplicate + 1
                     /\ UNCHANGED <<g_seenKeys, g_uniqueRecvPerNode, g_uniquePerGwPerNode>>

\* C3: a processed reception event has updated every counter it affects or none of
\* them; no step leaves the accounting partly updated.
C3_AllOrNothing ==
    [][rxCalls' # rxCalls => (HearingFullyApplied \/ UNCHANGED rxGlobals)]_vars

C3_Witness ==
    /\ rxCalls >= 3
    /\ g_totalRaw = rxCalls
    /\ g_totalDuplicate >= 1
    /\ Cardinality(g_seenKeys) >= 2

\* C4: of the hearings of one uplink exactly one is taken as first-seen, and it is
\* the first hearing of that uplink; every later one, at any gateway, is a duplicate.
C4_OneFirstSeen ==
    [][\A k \in Frames :
          /\ k \in heardFrames' => firstFlagged'[k] = 1
          /\ k \notin heardFrames' => firstFlagged'[k] = 0
          /\ firstFlagged'[k] # firstFlagged[k] => k \notin heardFrames]_vars

C4_Witness ==
    /\ rxCalls >= 3
    /\ Cardinality(heardFrames) = 1
    /\ \A k \in heardFrames : firstFlagged[k] = 1
    /\ g_totalDuplicate >= 2
    /\ hearingsAtGw[0] >= 1
    /\ hearingsAtGw[1] >= 1

\* C5: every hearing adds exactly one to the raw count of its node, of its node at
\* its gateway and of its gateway, whether or not its key was seen before.
C5_RawUnconditional ==
    [][\A d \in Devices, gw \in GwIdxs :
          heardAt'[d][gw] # heardAt[d][gw] =>
             LET n == EdNodeId(d)
             IN  /\ g_rawHearingsPerNode'[n] = g_rawHearingsPerNode[n] + 1
                 /\ g_rawPerGwPerNode'[n][gw] = g_rawPerGwPerNode[n][gw] + 1
                 /\ g_totalRawPerGw'[gw] = g_totalRawPerGw[gw] + 1]_vars

C5_Witness ==
    /\ g_totalDuplicate >= 1
    /\ \E n \in EdNodes : g_rawHearingsPerNode[n] >= 2 /\ g_uniqueRecvPerNode[n] = 1
    /\ \E g \in GwIdxs : g_totalRawPerGw[g] >= 2

\* C6: while a single uplink has been heard, k times over any gateways, totalRaw = k,
\* totalUnique = 1, totalDuplicate = k - 1 and each gateway's raw count is the
\* number of those hearings at that gateway.
C6_OneUplinkHeard ==
    (rxCalls >= 1 /\ Cardinality(heardFrames) = 1) =>
        /\ g_totalRaw = rxCalls
        /\ g_totalUnique = 1
        /\ g_totalDuplicate = rxCalls - 1
        /\ \A g \in GwIdxs : g_totalRawPerGw[g] = hearingsAtGw[g]

\* hearings at gateways {0, 1, 2, 0}
C6_Witness ==
    /\ Cardinality(heardFrames) = 1
    /\ rxCalls = 4
    /\ hearingsAtGw = [g \in GwIdxs |-> IF g = 0 THEN 2 ELSE IF g \in {1, 2} THEN 1 ELSE 0]
    /\ g_totalRaw = 4
    /\ g_totalUnique = 1
    /\ g_totalDuplicate = 3
    /\ g_totalRawPerGw[0] = 2

\* C7: no node has more unique receptions than raw hearings.
C7_UniqueAtMostRaw ==
    \A n \in NodeIds : g_uniqueRecvPerNode[n] <= g_rawHearingsPerNode[n]

C7_Witness ==
    /\ ~mappingPending
    /\ \E n \in EdNodes : g_uniqueRecvPerNode[n] = 2 /\ g_rawHearingsPerNode[n] = 2
    /\ \E n \in EdNodes : g_uniqueRecvPerNode[n] = 1 /\ g_rawHearingsPerNode[n] = 2

\* C8: the owner gateway written for a node has the largest unique count of that
\* node over all gateways and is the lowest gateway index with that count.
C8_OwnerIsFirstMax ==
    phase = "exported" =>
        \A n \in EdNodes :
            /\ csvOwner[n] \in 0 .. g_nGateways - 1
            /\ \A g \in 0 .. g_nGateways - 1 :
                  /\ g_uniquePerGwPerNode[n][g] <= g_uniquePerGwPerNode[n][csvOwner[n]]
                  /\ g < csvOwner[n] =>
                        g_uniquePerGwPerNode[n][g] < g_uniquePerGwPerNode[n][csvOwner[n]]

\* a node whose two uplinks were first heard at gateways 1 and 2: gateway 1 owns it
C8_Witness ==
    /\ phase = "exported"
    /\ \E n \in EdNodes :
          /\ g_uniquePerGwPerNode[n][0] = 0
          /\ g_uniquePerGwPerNode[n][1] = 1
          /\ g_uniquePerGwPerNode[n][2] = 1
          /\ csvOwner[n] = 1

\* C9: two (devaddr, fcnt) pairs that differ in either component get different
\* keys; MakePacketKey(5, 3) and MakePacketKey(3, 5) differ.
C9_KeyInjective ==
    keyOut # <<>> => (keyOut[1] = keyOut[2] => keyIn[1] = keyIn[2])

C9_Witness ==
    /\ keyIn = << <<(<<0, 5>>), (<<0, 3>>)>>, <<(<<0, 3>>), (<<0, 5>>)>> >>
    /\ keyOut # <<>>
    /\ keyOut[1] = <<0, 5, 0, 3>>
    /\ keyOut[2] = <<0, 3, 0, 5>>

\* the breakdown of the latest DoCalcRxPower call for the ordered pair, or zeros
LatestFor(a, b) == IF <<a, b>> \in DOMAIN lastCalc THEN lastCalc[<<a, b>>] ELSE ZeroDetails

\* C10: GetLastDetails(tx, rx) is the breakdown of the most recent DoCalcRxPower
\* call for that ordered pair, and all zeros if there has been none.
C10_LastBreakdown ==
    /\ \A a \in PropNodes, b \in PropNodes : GetLastDetails(a, b) = LatestFor(a, b)
    /\ lastReturned # <<>> =>
          lastReturned.details = LatestFor(lastReturned.tx, lastReturned.rx)

C10_Witness ==
    /\ overwrote
    /\ lastReturned # <<>>
    /\ lastReturned.details # ZeroDetails
    /\ lastReturned.details.shadowing_db # 0
    /\ <<0, 1>> \in DOMAIN lastCalc
    /\ <<1, 0>> \notin DOMAIN lastCalc
    /\ GetLastDetails(1, 0) = ZeroDetails

\* C11: a node's cohort is assigned by the device mapping and by nothing else, never
\* changes once assigned, and all the node's sent and received packets are counted
\* in one and the same cohort.
C11_CohortFixed ==
    [][\A n \in EdFirstNodes :
          /\ n \in DOMAIN g_isNearNode =>
                (n \in DOMAIN g_isNearNode' /\ g_isNearNode'[n] = g_isNearNode[n])
          /\ (n \notin DOMAIN g_isNearNode /\ n \in DOMAIN g_isNearNode') =>
                (mappingPending /\ ~mappingPending')
          /\ Cardinality(countedAs'[n]) <= 1]_vars

C11_Witness ==
    /\ g_nearCohortSent >= 1
    /\ g_nearCohortReceived >= 1
    /\ g_farCohortSent >= 1
    /\ \E n \in EdFirstNodes, m \in EdFirstNodes :
          /\ countedAs[n] = {"NEAR"} /\ g_isNearNode[n]
          /\ g_sentPacketsPerNode[n] >= 1 /\ g_receivedPacketsPerNode[n] >= 1
          /\ countedAs[m] = {"FAR"} /\ ~g_isNearNode[m]

\* C12: after the device mapping the threshold is the estimated RSSI at index
\* size/2 of the ascending order of all devices' estimates (as many as size/2
\* estimates or fewer lie below it, more than size/2 lie at or below it), and a
\* device is NEAR exactly when its estimate is at or above the threshold.
C12_NearIffAtThreshold ==
    (phase = "run" /\ ~mappingPending) =>
        LET below == {n \in EdFirstNodes : g_estRssiPerNode[n] < g_rssiThreshold}
            atMost == {n \in EdFirstNodes : g_estRssiPerNode[n] <= g_rssiThreshold}
        IN  /\ \E n \in EdFirstNodes : g_estRssiPerNode[n] = g_rssiThreshold
            /\ Cardinality(below) <= NumDevices \div 2
            /\ Cardinality(atMost) > NumDevices \div 2
            /\ \A n \in EdFirstNodes :
                  g_isNearNode[n] <=> (g_estRssiPerNode[n] >= g_rssiThreshold)

C12_Witness ==
    /\ phase = "run"
    /\ ~mappingPending
    /\ \E n \in EdFirstNodes, m \in EdFirstNodes :
          /\ g_estRssiPerNode[m] < g_estRssiPerNode[n]
          /\ g_rssiThreshold = g_estRssiPerNode[n]
          /\ g_isNearNode[n]
          /\ ~g_isNearNode[m]

\* C13: the estimated RSSI of every device is what the channel's reference loss
\* and path-loss exponent give at the device's distance.
C13_ChannelParameters ==
    (phase = "run" /\ ~mappingPending) =>
        \A n \in EdFirstNodes :
            g_estRssiPerNode[n] =
                Rssi_dBm_fromDistance(EstTxPower, g_nodeDistances[n], ChannelRefLoss,
                                      ChannelPathExp)

\* the tier of a capture strength, in thousandths of a percentage point
CaptureTier(d) ==
    IF d <= 5000 THEN "NONE"
    ELSE IF d <= 10000 THEN "WEAK"
    ELSE IF d <= 20000 THEN "MODERATE"
    ELSE "STRONG"

\* C14: the level in the CSV and the level on the console are both the tier of
\* PDR(near) - PDR(far): NONE up to 5, WEAK up to 10, MODERATE up to 20, STRONG above.
C14_LevelTiers ==
    fnResult # <<>> =>
        /\ fnResult.csvLevel = CaptureTier(fnResult.captureEffectStrength.val)
        /\ fnResult.consoleLevel = CaptureTier(fnResult.captureEffectStrength.val)

\* C15: when a frame lost to interference decodes as an uplink data frame of an
\* end device, the node mapped to the frame's address is the sending node, its
\* collision counter goes up by exactly one and no other node's counter changes.
C15_LossAttributed ==
    [][(/\ g_lostInterf' # g_lostInterf
        /\ lastLoss'.packet.mtype \in UplinkDataTypes
        /\ lastLoss'.sender # {}) =>
           \A n \in lastLoss'.sender :
              /\ g_deviceToNodeMap[lastLoss'.packet.addr] = n
              /\ g_collisionsPerNode' = [g_collisionsPerNode EXCEPT ![n] = @ + 1]]_vars

C15_Witness ==
    /\ lastLoss # <<>>
    /\ lastLoss.packet.mtype = "CONFIRMED_DATA_UP"
    /\ lastLoss.sender = {EdNodeIdFirst(1)}
    /\ g_collisionsPerNode[EdNodeIdFirst(1)] = 2
    /\ g_collisionsPerNode[EdNodeIdFirst(0)] = 0
    /\ g_collisionsPerNode[lastLoss.gwId] = 0

\* C16: a loss whose frame is not an uplink data frame, or whose address belongs
\* to no end device, goes up in the global interference-loss counter and in no
\* per-node counter; the per-node collision counters never add up to more than
\* the global counter.
C16_UnattributedOnlyGlobal ==
    [][/\ (/\ g_lostInterf' # g_lostInterf
            /\ \/ lastLoss'.packet.mtype \notin UplinkDataTypes
               \/ lastLoss'.sender = {}) =>
               /\ g_lostInterf' = g_lostInterf + 1
               /\ UNCHANGED <<g_collisionsPerNode, g_interferencePerNode>>
       /\ SumPerNode(g_collisionsPerNode') <= g_lostInterf']_vars

C16_Witness ==
    /\ lastLoss # <<>>
    /\ lastLoss.sender = {}
    /\ lastLoss.packet.mtype \in UplinkDataTypes
    /\ g_lostInterf = 3
    /\ SumPerNode(g_collisionsPerNode) = 1
    /\ SumPerNode(g_interferencePerNode) = 1

\* C17: with a denominator of 0 every rate is 0, not NaN and not infinite:
\* RatePercent, PdrPercent, DropRatePercent, DeduplicationRatePercent, and the
\* PDR of a cohort that sent nothing.
C17_ZeroDenominator ==
    (fnResult # <<>> /\ fnArgs.den = 0) =>
        /\ fnResult.rate = Finite(0)
        /\ fnResult.pdr = Finite(0)
        /\ fnResult.drop = Finite(0)
        /\ fnResult.dedup = Finite(0)
        /\ fnResult.cohort = Finite(0)

C17_Witness ==
    /\ fnResult # <<>>
    /\ fnArgs.den = 0
    /\ fnArgs.num = 12
    /\ fnResult.rate = Finite(0)
    /\ fnResult.cohort = Finite(0)

\* C18: the percentile of an empty list is 0; for p >= 0 the percentile of a
\* non-empty list is the element at index min(floor(p / 100 * size), size - 1)
\* of the ascending order of the samples: an element of the list with at most
\* that many samples below it and more than that many at or below it.
C18_PercentileValue ==
    fnResult # <<>> =>
        LET data == fnArgs.data
            size == Len(data)
            idx == Min((fnArgs.percentile * size) \div 100, size - 1)
            v == fnResult.value
        IN  /\ data = <<>> => v = 0
            /\ (data # <<>> /\ fnArgs.percentile >= 0) =>
                  /\ fnResult.index = idx
                  /\ v \in Range(data)
                  /\ Cardinality({i \in DOMAIN data : data[i] < v}) <= idx
                  /\ Cardinality({i \in DOMAIN data : data[i] <= v}) > idx

C18_Witness ==
    /\ fnResult # <<>>
    /\ fnArgs.data = <<40, 10, 30, 20>>
    /\ fnArgs.percentile = 50
    /\ fnResult.index = 2
    /\ fnResult.value = 30

\* C19: for p < 0 or p > 100 and a non-empty list the index read lies inside the
\* list and the result is one of the samples, whatever the conversion of a
\* negative double yields; for p > 100 it is the largest sample, as for p = 100.
C19_OutOfRangeInside ==
    (/\ fnResult # <<>>
     /\ fnArgs.data # <<>>
     /\ fnArgs.percentile < 0 \/ fnArgs.percentile > 100) =>
        /\ fnResult.index \in 0 .. Len(fnArgs.data) - 1
        /\ fnResult.value \in Range(fnArgs.data)
        /\ fnArgs.percentile > 100 =>
               \A x \in Range(fnArgs.data) : x <= fnResult.value

C19_Witness ==
    /\ fnResult # <<>>
    /\ fnArgs.data = <<20, 40, 10, 30>>
    /\ fnArgs.percentile = -50
    /\ fnResult.cast = SizeMaxLike
    /\ fnResult.index = 3
    /\ fnResult.value = 40

\* C20: both time-on-air functions give for sf < 7 what they give for sf = 7 and
\* for sf > 12 what they give for sf = 12, the other arguments being equal.
C20_SfClamped ==
    fnResult # <<>> =>
        /\ fnArgs.sf < 7 =>
              /\ fnResult.ToA_ms = fnResult.ToA_ms_7
              /\ fnResult.CalculateToA = fnResult.CalculateToA_7
        /\ fnArgs.sf > 12 =>
              /\ fnResult.ToA_ms = fnResult.ToA_ms_12
              /\ fnResult.CalculateToA = fnResult.CalculateToA_12

RECURSIVE SumSeq(_)
SumSeq(seq) == IF seq = <<>> THEN 0 ELSE Head(seq) + SumSeq(Tail(seq))

\* C21: after n >= 1 received samples of a node the stored running mean is the
\* arithmetic mean of the n samples (mean * n = sum of the samples), in scenario
\* 7 and in scenario 3, and the number of samples averaged is n.
C21_RunningMean ==
    Len(fnArgs) >= 1 =>
        LET n == Len(fnArgs)
            total == SumSeq(fnArgs)
        IN  /\ fnResult.g_rssiSampleCount = n
            /\ fnResult.g_receivedPacketsPerNode = n
            /\ fnResult.g_avgRssiPerNode[1] * n = total * fnResult.g_avgRssiPerNode[2]
            /\ fnResult.g_rssiPerNode[1] * n = total * fnResult.g_rssiPerNode[2]

C21_Witness ==
    /\ fnArgs = <<-120, -90, -65>>
    /\ fnResult.g_avgRssiPerNode = <<-275, 3>>
    /\ fnResult.g_rssiPerNode = <<-275, 3>>

\* C22: at 125 kHz, for 7 <= sf < 12 and every payload, coding rate, header mode
\* and CRC setting, ToA_ms(sf) <= ToA_ms(sf + 1).
C22_ToAMonotonic ==
    (fnResult # <<>> /\ fnArgs.bw_hz = 125000 /\ fnArgs.sf >= 7 /\ fnArgs.sf < 12) =>
        fnResult.ToA_ms.val <= fnResult.ToA_ms_next.val

C22_Witness ==
    /\ fnResult # <<>>
    /\ fnArgs.bw_hz = 125000
    /\ fnArgs.sf = 10
    /\ fnArgs.payload_bytes = 255
    /\ fnArgs.explicit_header
    /\ fnResult.ToA_ms.fp = "finite"
    /\ fnResult.ToA_ms.val < fnResult.ToA_ms_next.val
    /\ fnResult.ToA_ms_next.val < fnResult.ToA_ms_12.val

\* C23: after any sequence of send and gateway-reception events of a run, no node
\* has received more packets than it sent:
\* g_receivedPacketsPerNode[n] <= g_sentPacketsPerNode[n] for every node n.
C23_ReceivedAtMostSent ==
    \A n \in NodeIds : g_receivedPacketsPerNode[n] <= g_sentPacketsPerNode[n]

\* C24: at the end of a run the per-node counters agree with the totals: the sum
\* of g_sentPacketsPerNode is g_totalSent and the sum of g_receivedPacketsPerNode
\* is g_totalReceived, in whatever order the run's events came.
C24_SumsMatchTotals ==
    phase = "stopped" =>
        /\ SumPerNode(g_sentPacketsPerNode) = g_totalSent
        /\ SumPerNode(g_receivedPacketsPerNode) = g_totalReceived

C24_Witness ==
    /\ phase = "stopped"
    /\ g_totalSent = MaxUplinks
    /\ g_totalReceived >= 2
    /\ \A d \in Devices : g_sentPacketsPerNode[EdNodeIdFirst(d)] >= 1
    /\ \E d \in Devices : g_receivedPacketsPerNode[EdNodeIdFirst(d)] >= 2
    /\ SumPerNode(g_sentPacketsPerNode) = g_totalSent

\* C25: with the standard timing the mapping is built (1.0 s) before any end
\* device sends (applications start at 1.1 s): whenever a send or a reception has
\* been processed, the mapping has been built and holds every end device.
C25_MappingBeforeTraffic ==
    (aired # {} \/ rxCalls > 0) =>
        /\ ~mappingPending
        /\ now >= AppStartTick
        /\ \A d \in Devices : DevAddr(d) \in DOMAIN g_deviceToNodeMap

C25_Witness ==
    /\ Cardinality(aired) = 1
    /\ rxCalls = 1
    /\ now = AppStartTick
    /\ ~mappingPending
    /\ \A d \in Devices : DevAddr(d) \in DOMAIN g_deviceToNodeMap

\* C26: a SimpleSender configured with nPkts > 0 never sends more than nPkts
\* packets, and once nPkts packets are sent no send event is pending; with
\* nPkts = 0 a started sender always has its next send pending.
C26_SendsBounded ==
    /\ m_nPkts > 0 => /\ devSent <= m_nPkts
                      /\ devSent = m_nPkts => m_event # "pending"
    /\ (m_nPkts = 0 /\ appState = "started") => m_event = "pending"

C26_Witness ==
    /\ m_nPkts = 3
    /\ devSent = 3
    /\ m_sent = 3
    /\ m_event = "expired"
    /\ appState = "started"

\* C27: once StopApplication has run on a started SimpleSender no packet is sent:
\* the stop leaves no send event pending, and afterwards none is scheduled and
\* nothing is handed to the device.
C27_NoSendAfterStop ==
    [][(appState = "stopped" \/ appState' = "stopped") =>
           /\ devSent' = devSent
           /\ m_event' # "pending"]_vars

C27_Witness ==
    /\ appState = "stopped"
    /\ m_event = "cancelled"
    /\ m_nPkts = 3
    /\ devSent = 2

\* C29: the exported count of dropped packets never wraps around: it is
\* totalSent - totalReceived when totalSent >= totalReceived, it never exceeds
\* totalSent, and so the exported drop rate lies in [0, 100].
C29_DropsNeverWrap ==
    fnResult # <<>> =>
        \A export \in DOMAIN fnResult :
            LET row == fnResult[export]
            IN  /\ fnArgs.g_totalSent >= fnArgs.g_totalReceived =>
                       row.dropped = U32(fnArgs.g_totalSent - fnArgs.g_totalReceived)
                /\ LessEq32(row.dropped, U32(fnArgs.g_totalSent))
                /\ \A rate \in row.rate :
                       rate.fp = "finite" /\ rate.val >= 0 /\ rate.val <= 100000

\* C30: the channel utilisation scenario 3 exports is OfferedLoadErlangs of the
\* accumulated airtime in milliseconds, as a percentage:
\* 100 * (totalAirTime_ms / 1000) / (simSeconds * channels), with one channel and
\* totalAirTime_ms the sum of the airtimes of the packets sent.
C30_ChannelUtilisation ==
    phase = "exported" =>
        LET totalAirTime == g_totalSent * CalculateAirTime(g_currentSpreadingFactor).val
            simSeconds == fnArgs.simulationTime * 60
        IN  /\ g_totalAirTime = totalAirTime
            /\ fnResult.TotalAirTime_ms = Frac(totalAirTime, 4000)
            /\ fnResult.ChannelUtilization_Percent = Frac(totalAirTime, 40000 * simSeconds)

\* C28: in scenario 4 a received uplink is counted as a retransmission exactly
\* when an uplink with the same frame counter was received from the same node
\* before; so for every node, after any receptions, the received count is the
\* retransmissions plus the number of distinct frame counters received from it.
C28_RetransmissionAccounting ==
    [][\A d \in Devices :
          LET n == EdNodeIdFirst(d)
              heard == {f \in 0 .. MaxUplinks - 1 : receptions'[<<d, f>>] >= 1}
          IN  /\ g_frameCountersPerNode'[n] = heard
              /\ g_receivedPacketsPerNode'[n] =
                     g_retransmissionsPerNode'[n] + Cardinality(heard)
              /\ \A f \in 0 .. MaxUplinks - 1 :
                     receptions'[<<d, f>>] = receptions[<<d, f>>] + 1 =>
                         /\ g_receivedPacketsPerNode'[n] = g_receivedPacketsPerNode[n] + 1
                         /\ g_retransmissionsPerNode'[n] =
                                g_retransmissionsPerNode[n]
                                + (IF receptions[<<d, f>>] >= 1 THEN 1 ELSE 0)]_vars

C28_Witness ==
    /\ g_receivedPacketsPerNode[EdNodeIdFirst(0)] = 3
    /\ g_retransmissionsPerNode[EdNodeIdFirst(0)] = 1
    /\ g_frameCountersPerNode[EdNodeIdFirst(0)] = {0, 1}
    /\ g_lastFrameCountPerNode[EdNodeIdFirst(0)] = 0
    /\ g_totalRetransmissions = 1

====
